---- MODULE Spec2Model ----
(***************************************************************************)
(* LE Audio unicast client (system/bta/le_audio/client.cc): the            *)
(* audio-session coordinator of LeAudioClientImpl, its group registry and  *)
(* the interlock with the group state machine.                             *)
(*                                                                         *)
(* Handlers are operators from a record of the object's fields to the      *)
(* record after the call, so that nested calls (GroupSetActive ->          *)
(* GroupStop -> StopStream -> StatusReportCb) compose as in the code.      *)
(* The group state machine (state_machine.cc) and the registries           *)
(* (devices.cc) are collaborators; they are modelled from their            *)
(* description, the coordinator from client.cc.                            *)
(***************************************************************************)
EXTENDS Integers, Sequences, FiniteSets, TLC

VARIABLES
  aseGroups_,                 \* ids of the groups in the registry
  group_devices,              \* group id -> member list, in insertion order
  group_state,                \* group id -> current ASE state
  target_state,               \* group id -> target ASE state
  pending_configuration,      \* group id -> BOOLEAN
  pending_update_available_contexts, \* group id -> NoContexts or a context set
  active_contexts,            \* group id -> active-context bitmap (a set)
  stream_conf,                \* group id -> NoStreamConf or the stream configuration
  group_snk_audio_locations_, \* group id -> aggregated sink locations
  group_src_audio_locations_, \* group id -> aggregated source locations
  group_id_,                  \* device -> its group id, or kGroupUnknown
  gatt_link,                  \* the stack's view: GATT connection to the device is up
  conn_id_,                   \* device -> TRUE when conn_id_ is valid
  dev_active,                 \* device -> TRUE when it has active ASEs
  avail_contexts,             \* device -> available contexts (a set)
  snk_audio_locations_,       \* device -> sink locations (a set)
  src_audio_locations_,       \* device -> source locations (a set)
  active_group_id_,
  current_context_type_,
  audio_sender_state_,
  audio_receiver_state_,
  current_source_codec_config,
  current_sink_codec_config,
  lc3_encoder_mem,            \* TRUE when lc3_encoder_left/right_mem are allocated
  lc3_decoder_mem,            \* TRUE when lc3_decoder_left/right_mem are allocated
  audio_source_instance_,     \* TRUE when the source interface handle is non-null
  audio_sink_instance_,       \* TRUE when the sink interface handle is non-null
  af_source_acquired,         \* the framework's view: source interface acquired
  af_sink_acquired,           \* the framework's view: sink interface acquired
  suspend_timeout_,           \* kGroupUnknown when not scheduled, else the group id it carries
  leAudioDevices_,            \* the devices in the registry
  cig_created_,               \* group id -> BOOLEAN
  removing_device_,           \* device -> BOOLEAN
  connecting_actively_,       \* device -> BOOLEAN
  encrypted_,                 \* device -> BOOLEAN
  known_service_handles_,     \* device -> BOOLEAN
  notify_connected_after_read_, \* device -> BOOLEAN
  csis_member_,               \* device -> BOOLEAN
  dev_hdls,                   \* device -> the PACS and control-point handles stored on it
  ases_,                      \* device -> the value handles of its ASEs, in order
  audio_directions_,          \* device -> the directions it has audio locations for
  service_search,             \* the stack's view: a service search is under way
  gatt_queue,                 \* the GATT queue of the connection: requests not yet completed
  connection_state,           \* the service's view: the last OnConnectionState of the device
  groups_module,              \* the groups module's view: device -> its CAP group id
  cached_channel_data_,       \* the decoded frame kept for pairing, <<>> when none
  cached_channel_timestamp_,
  cached_channel_is_left_,    \* uint32_t used as a boolean; Uninitialized at first
  instance,                   \* TRUE while the global instance pointer is non-null
  aborted,                    \* a LOG_ASSERT failed: the process is gone
  in_range,                   \* surroundings: the devices that can be reached
  supported,                  \* surroundings: device -> contexts its PACS can offer
  usages,                     \* surroundings: the contexts the framework plays
  grants,                     \* surroundings: the interfaces the framework grants
  faults                      \* surroundings: what can go wrong with the peers

vars == <<aseGroups_, group_devices, group_state, target_state,
          pending_configuration, pending_update_available_contexts,
          active_contexts, stream_conf, group_snk_audio_locations_,
          group_src_audio_locations_, group_id_, gatt_link, conn_id_,
          dev_active, avail_contexts,
          snk_audio_locations_, src_audio_locations_, active_group_id_,
          current_context_type_, audio_sender_state_, audio_receiver_state_,
          current_source_codec_config, current_sink_codec_config,
          lc3_encoder_mem, lc3_decoder_mem, audio_source_instance_,
          audio_sink_instance_, af_source_acquired, af_sink_acquired,
          suspend_timeout_, leAudioDevices_, cig_created_,
          removing_device_, connecting_actively_, encrypted_,
          known_service_handles_, notify_connected_after_read_,
          csis_member_, dev_hdls, ases_, audio_directions_,
          service_search, gatt_queue, connection_state,
          groups_module, cached_channel_data_, cached_channel_timestamp_,
          cached_channel_is_left_, instance, aborted, in_range, supported,
          usages, grants, faults>>

----------------------------------------------------------------------------
(* Bounds and value sets *)

\* number of control-point entries in one notification
MaxCtpEntries == 2

kGroupUnknown == "Unknown"

\* the groups restored from storage, and one id that is in no registry
GroupIds == {"g1", "g2"}
UnregisteredGroupId == "g9"
Devices == {"d1", "d2", "d3"}

AseStates == {"IDLE", "CODEC_CONFIGURED", "QOS_CONFIGURED", "ENABLING",
              "STREAMING", "DISABLING", "RELEASING"}

AudioStates == {"IDLE", "READY_TO_START", "STARTED", "READY_TO_RELEASE",
                "RELEASING"}

\* enum class AudioState: the order the code compares states by
AudioStateValue(a) ==
  CASE a = "IDLE" -> 0
    [] a = "READY_TO_START" -> 1
    [] a = "STARTED" -> 2
    [] a = "READY_TO_RELEASE" -> 3
    [] a = "RELEASING" -> 4

\* context types the coordinator is driven with; RFU is the first invalid value
ContextTypes == {"MEDIA", "CONVERSATIONAL"}
\* the empty optional of context sets
NoContexts == {"nullopt"}
\* metadata with no usable track
InvalidMetadata == "invalid metadata"

InvalidCodecConfig == "invalid"
NoStreamConf == [context |-> "none", num_devices |-> 0]
NoDevice == "nullptr"
\* a member that the constructor leaves without a value
Uninitialized == -1

\* the characteristics of the Published Audio Capabilities service, of the
\* Audio Stream Control service, and the ones whose CCC descriptor may be
\* missing
PacsCharacteristics ==
  {"SinkPAC", "SourcePAC", "SinkAudioLocations", "SourceAudioLocations",
   "AvailableAudioContexts", "SupportedAudioContexts"}
AseCharacteristics == {"SinkASE", "SourceASE"}
OptionalCcc ==
  {"SinkAudioLocations", "SourceAudioLocations", "SupportedAudioContexts"}
AudioLocationValues == {{}, {"FL"}, {"FR"}}
\* the MTU a GATT open reports, and the one the client asks for
MtuValues == {"GATT_DEF_BLE_MTU_SIZE", "larger"}
kLeAudioMtu == 240

CtpResponseCodes == {"Success", "InvalidConfigurationParameterValue"}
CtpReasons == {"NoReason", "InvalidAseCisMapping"}
\* a success carries no reason
CtpEntries ==
  {entry \in [response_code : CtpResponseCodes, reason : CtpReasons] :
     entry.response_code = "Success" => entry.reason = "NoReason"}
CtpNotifications == UNION {[1..n -> CtpEntries] : n \in 0..MaxCtpEntries}

----------------------------------------------------------------------------
(* The object as one record *)

Cur ==
  [aseGroups_ |-> aseGroups_, group_devices |-> group_devices,
   group_state |-> group_state, target_state |-> target_state,
   pending_configuration |-> pending_configuration,
   pending_update_available_contexts |-> pending_update_available_contexts,
   active_contexts |-> active_contexts,
   stream_conf |-> stream_conf,
   group_snk_audio_locations_ |-> group_snk_audio_locations_,
   group_src_audio_locations_ |-> group_src_audio_locations_,
   group_id_ |-> group_id_, gatt_link |-> gatt_link,
   conn_id_ |-> conn_id_, dev_active |-> dev_active,
   avail_contexts |-> avail_contexts,
   snk_audio_locations_ |-> snk_audio_locations_,
   src_audio_locations_ |-> src_audio_locations_,
   active_group_id_ |-> active_group_id_,
   current_context_type_ |-> current_context_type_,
   audio_sender_state_ |-> audio_sender_state_,
   audio_receiver_state_ |-> audio_receiver_state_,
   current_source_codec_config |-> current_source_codec_config,
   current_sink_codec_config |-> current_sink_codec_config,
   lc3_encoder_mem |-> lc3_encoder_mem, lc3_decoder_mem |-> lc3_decoder_mem,
   audio_source_instance_ |-> audio_source_instance_,
   audio_sink_instance_ |-> audio_sink_instance_,
   af_source_acquired |-> af_source_acquired,
   af_sink_acquired |-> af_sink_acquired,
   suspend_timeout_ |-> suspend_timeout_,
   leAudioDevices_ |-> leAudioDevices_, cig_created_ |-> cig_created_,
   removing_device_ |-> removing_device_,
   connecting_actively_ |-> connecting_actively_,
   encrypted_ |-> encrypted_,
   known_service_handles_ |-> known_service_handles_,
   notify_connected_after_read_ |-> notify_connected_after_read_,
   csis_member_ |-> csis_member_, dev_hdls |-> dev_hdls, ases_ |-> ases_,
   audio_directions_ |-> audio_directions_,
   service_search |-> service_search,
   gatt_queue |-> gatt_queue, connection_state |-> connection_state,
   groups_module |-> groups_module,
   cached_channel_data_ |-> cached_channel_data_,
   cached_channel_timestamp_ |-> cached_channel_timestamp_,
   cached_channel_is_left_ |-> cached_channel_is_left_,
   instance |-> instance, aborted |-> aborted,
   ret |-> FALSE, out |-> <<>>]

Emit(s, call) == [s EXCEPT !.out = Append(@, call)]

Return(s, value) == [s EXCEPT !.ret = value]

\* a failed LOG_ASSERT ends the process
Abort(s) == [s EXCEPT !.aborted = TRUE]

Calls(o, name) == {i \in DOMAIN o : o[i][1] = name}

----------------------------------------------------------------------------
(* Registries: LeAudioDeviceGroups, LeAudioDeviceGroup, LeAudioDevice *)

SeqToSet(q) == {q[i] : i \in DOMAIN q}

FindById(s, g) == g \in s.aseGroups_

IsInTransition(s, g) == s.group_state[g] # s.target_state[g]

IsAnyInTransition(s) == \E g \in s.aseGroups_ : IsInTransition(s, g)

IsEmpty(s, g) == s.group_devices[g] = <<>>

IsAnyDeviceConnected(s, g) ==
  \E d \in SeqToSet(s.group_devices[g]) : s.conn_id_[d]

NumOfConnected(s, g) ==
  Cardinality({d \in SeqToSet(s.group_devices[g]) : s.conn_id_[d]})

GetFirstDevice(s, g) ==
  IF IsEmpty(s, g) THEN NoDevice ELSE s.group_devices[g][1]

\* the active members of g, in member-list order
ActiveDevices(s, g) ==
  SelectSeq(s.group_devices[g], LAMBDA d : s.dev_active[d])

GetFirstActiveDevice(s, g) ==
  IF ActiveDevices(s, g) = <<>> THEN NoDevice ELSE ActiveDevices(s, g)[1]

\* the members after d in the list that are active
ActiveDevicesAfter(s, g, d) ==
  LET q == s.group_devices[g]
      at == CHOOSE i \in DOMAIN q : q[i] = d
  IN SelectSeq(SubSeq(q, at + 1, Len(q)), LAMBDA e : s.dev_active[e])

\* codec configuration of the group for a context and a direction: MEDIA is
\* sink only, CONVERSATIONAL is bidirectional; none for an inactive context
GetCodecConfigurationByDirection(s, g, context_type, direction) ==
  IF context_type \notin s.active_contexts[g] THEN InvalidCodecConfig
  ELSE CASE context_type = "MEDIA" /\ direction = "Sink" -> "media_48k"
         [] context_type = "CONVERSATIONAL" /\ direction = "Sink" -> "voice_16k"
         [] context_type = "CONVERSATIONAL" /\ direction = "Source" -> "voice_16k"
         [] OTHER -> InvalidCodecConfig

\* re-evaluates the contexts named in update_contexts against the members'
\* available contexts; ret is the new bitmap, or NoContexts when unchanged
UpdateActiveContextsMap(s, g, update_contexts) ==
  LET members == SeqToSet(s.group_devices[g])
      avail == UNION {s.avail_contexts[d] : d \in members}
      old == s.active_contexts[g]
      new == (old \ update_contexts) \cup (avail \cap update_contexts)
  IN IF new = old THEN Return(s, NoContexts)
     ELSE Return([s EXCEPT !.active_contexts[g] = new], new)

\* aggregated locations := OR of the members' locations; ret: changed
ReloadAudioLocations(s, g) ==
  LET members == SeqToSet(s.group_devices[g])
      snk == UNION {s.snk_audio_locations_[d] : d \in members}
      src == UNION {s.src_audio_locations_[d] : d \in members}
  IN IF snk = s.group_snk_audio_locations_[g] /\ src = s.group_src_audio_locations_[g]
     THEN Return(s, FALSE)
     ELSE Return([s EXCEPT !.group_snk_audio_locations_[g] = snk,
                           !.group_src_audio_locations_[g] = src], TRUE)

\* the stream has streams of that direction
HasStreamDirection(s, g, direction) ==
  /\ s.stream_conf[g] # NoStreamConf
  /\ \/ direction = "Sink"
     \/ s.stream_conf[g].context = "CONVERSATIONAL"

----------------------------------------------------------------------------
(* Audio-session coordinator: helpers of LeAudioClientImpl *)

\* a variant that keeps the framework uninformed
ReconfigurationUnannounced(s) == s

SuspendedForReconfiguration(s) ==
  LET s1 == IF AudioStateValue(s.audio_sender_state_) > AudioStateValue("IDLE")
            THEN Emit(s, <<"SuspendedForReconfiguration", "AudioSource">>)
            ELSE s
  IN IF AudioStateValue(s1.audio_receiver_state_) > AudioStateValue("IDLE")
     THEN Emit(s1, <<"SuspendedForReconfiguration", "AudioSink">>)
     ELSE s1

\* a variant that tells the framework whatever the audio states are
CancelStreamingRequestUnguarded(s) ==
  [Emit(Emit(s, <<"CancelStreamingRequest", "AudioSource">>),
        <<"CancelStreamingRequest", "AudioSink">>)
     EXCEPT !.audio_sender_state_ = "IDLE", !.audio_receiver_state_ = "IDLE"]

CancelStreamingRequest(s) ==
  LET s1 == IF AudioStateValue(s.audio_sender_state_) >=
                 AudioStateValue("READY_TO_START")
            THEN [Emit(s, <<"CancelStreamingRequest", "AudioSource">>)
                    EXCEPT !.audio_sender_state_ = "IDLE"]
            ELSE s
  IN IF AudioStateValue(s1.audio_receiver_state_) >=
          AudioStateValue("READY_TO_START")
     THEN [Emit(s1, <<"CancelStreamingRequest", "AudioSink">>)
             EXCEPT !.audio_receiver_state_ = "IDLE"]
     ELSE s1

\* a variant for a codec that is not in the host: no instance is set up
NoHostEncoders(s) == s

\* frees what is allocated and allocates anew (codec location HOST)
SetupEncoders(s) ==
  LET s1 == IF s.lc3_encoder_mem THEN Emit(s, <<"free", "lc3_encoder">>) ELSE s
  IN [Emit(s1, <<"malloc", "lc3_encoder">>) EXCEPT !.lc3_encoder_mem = TRUE]

SetupDecoders(s) ==
  LET s1 == IF s.lc3_decoder_mem THEN Emit(s, <<"free", "lc3_decoder">>) ELSE s
  IN [Emit(s1, <<"malloc", "lc3_decoder">>) EXCEPT !.lc3_decoder_mem = TRUE]

StartSendingAudio(s, g) ==
  IF GetFirstActiveDevice(s, g) = NoDevice THEN Abort(s)
  ELSE IF ~HasStreamDirection(s, g, "Sink") THEN Return(s, FALSE)
  ELSE Return([Emit(SetupEncoders(s), <<"ConfirmStreamingRequest", "AudioSource">>)
                 EXCEPT !.audio_sender_state_ = "STARTED"], TRUE)

\* a variant that leaves the cache as it is
KeepCachedMicrophoneData(s) == s

CleanCachedMicrophoneData(s) ==
  [s EXCEPT !.cached_channel_data_ = <<>>,
            !.cached_channel_timestamp_ = 0,
            !.cached_channel_is_left_ = 0]

StartReceivingAudio(s, g) ==
  IF ~HasStreamDirection(s, g, "Source") THEN s
  ELSE [Emit(SetupDecoders(CleanCachedMicrophoneData(s)),
             <<"ConfirmStreamingRequest", "AudioSink">>)
          EXCEPT !.audio_receiver_state_ = "STARTED"]

SuspendAudio(s) ==
  LET s1 == [s EXCEPT !.audio_receiver_state_ = "IDLE",
                      !.audio_sender_state_ = "IDLE"]
      s2 == IF s1.lc3_encoder_mem
            THEN [Emit(s1, <<"free", "lc3_encoder">>) EXCEPT !.lc3_encoder_mem = FALSE]
            ELSE s1
  IN IF s2.lc3_decoder_mem
     THEN [Emit(s2, <<"free", "lc3_decoder">>) EXCEPT !.lc3_decoder_mem = FALSE]
     ELSE s2

StopAudio(s) == SuspendAudio(s)

HandlePendingAvailableContexts(s, g) ==
  IF ~FindById(s, g) THEN s
  ELSE LET pending == s.pending_update_available_contexts[g]
       IN IF pending = NoContexts THEN s
          ELSE LET s1 == UpdateActiveContextsMap(s, g, pending)
                   s2 == IF s1.ret # NoContexts
                         THEN Emit(s1, <<"OnAudioConf", g, s1.ret>>)
                         ELSE s1
               IN [s2 EXCEPT !.pending_update_available_contexts[g] = NoContexts]

----------------------------------------------------------------------------
(* Group state machine: the commands the coordinator gives it *)

\* the connected members take part in the configuration
ActivateConnected(s, g) ==
  [d \in Devices |->
     IF d \in SeqToSet(s.group_devices[g]) THEN s.conn_id_[d]
     ELSE s.dev_active[d]]

Deactivate(s, g) ==
  [d \in Devices |->
     IF d \in SeqToSet(s.group_devices[g]) THEN FALSE ELSE s.dev_active[d]]

ConfigureStream(s, g, context_type) ==
  LET s1 == Emit(s, <<"ConfigureStream", g, context_type>>)
  IN IF context_type \notin s1.active_contexts[g] \/ ~IsAnyDeviceConnected(s1, g)
     THEN Return(s1, FALSE)
     ELSE Return([s1 EXCEPT !.target_state[g] = "CODEC_CONFIGURED",
                            !.dev_active = ActivateConnected(s1, g),
                            !.stream_conf[g] =
                               [context |-> context_type,
                                num_devices |-> NumOfConnected(s1, g)]], TRUE)

----------------------------------------------------------------------------
(* LeAudioClientImpl::StatusReportCb *)

StatusReportCb(s, g, status) ==
  CASE status = "STREAMING" ->
         IF g # s.active_group_id_ THEN Abort(s)
         ELSE LET s1 == IF s.audio_sender_state_ = "READY_TO_START"
                        THEN StartSendingAudio(s, g) ELSE s
              IN IF ~s1.aborted /\ s1.audio_receiver_state_ = "READY_TO_START"
                 THEN StartReceivingAudio(s1, g) ELSE s1
    [] status = "SUSPENDED" -> SuspendAudio(s)
    [] status = "CONFIGURED_BY_USER" ->
         HandlePendingAvailableContexts(CancelStreamingRequest(s), g)
    [] status = "CONFIGURED_AUTONOMOUS" ->
         IF s.pending_configuration[g]
         THEN ConfigureStream(SuspendedForReconfiguration(s), g,
                              s.current_context_type_)
         ELSE HandlePendingAvailableContexts(CancelStreamingRequest(s), g)
    [] status = "IDLE" ->
         IF FindById(s, g) /\ s.pending_configuration[g]
         THEN LET s1 == ConfigureStream(SuspendedForReconfiguration(s), g,
                                        s.current_context_type_)
              IN IF s1.ret THEN s1
                 ELSE HandlePendingAvailableContexts(CancelStreamingRequest(s1), g)
         ELSE HandlePendingAvailableContexts(CancelStreamingRequest(s), g)
    [] status \in {"RELEASING", "SUSPENDING"} ->
         [s EXCEPT !.audio_sender_state_ =
                      IF @ # "IDLE" THEN "RELEASING" ELSE @,
                   !.audio_receiver_state_ =
                      IF @ # "IDLE" THEN "RELEASING" ELSE @]
    [] OTHER -> s

----------------------------------------------------------------------------
(* Group state machine, continued: commands that report synchronously *)

StartStream(s, g, context_type) ==
  LET s1 == Emit(s, <<"StartStream", g, context_type>>)
  IN IF context_type \notin s1.active_contexts[g] THEN Return(s1, FALSE)
     ELSE IF s1.group_state[g] = "STREAMING" THEN Return(s1, TRUE)
     ELSE Return([s1 EXCEPT !.target_state[g] = "STREAMING",
                            !.dev_active = ActivateConnected(s1, g),
                            !.stream_conf[g] =
                               [context |-> context_type,
                                num_devices |-> NumOfConnected(s1, g)]], TRUE)

\* CallbacksImpl: what the state machine calls reaches the client only
\* while there is one
CallbacksStatusReportCb(s, g, status) ==
  IF s.instance THEN StatusReportCb(s, g, status) ELSE s

SuspendStream(s, g) ==
  CallbacksStatusReportCb([Emit(s, <<"SuspendStream", g>>)
                    EXCEPT !.target_state[g] = "QOS_CONFIGURED"],
                 g, "SUSPENDING")

StopStream(s, g) ==
  LET s1 == Emit(s, <<"StopStream", g>>)
  IN IF s1.group_state[g] = "RELEASING" \/ GetFirstActiveDevice(s1, g) = NoDevice
     THEN s1
     ELSE CallbacksStatusReportCb([s1 EXCEPT !.target_state[g] = "IDLE"], g, "RELEASING")

AttachToStream(s, g, d) ==
  [Emit(s, <<"AttachToStream", g, d>>) EXCEPT !.dev_active[d] = TRUE]

----------------------------------------------------------------------------
(* Public facade *)

\* a variant that looks at the requested group only
OwnGroupInTransition(s, g) == IsInTransition(s, g)

\* InternalGroupStream: the check that no group is in transition
StreamBlockedByTransition(s, g) == IsAnyInTransition(s)

InternalGroupStream(s, g, context_type) ==
  IF context_type = "RFU" THEN Return(s, FALSE)
  ELSE IF ~FindById(s, g) THEN Return(s, FALSE)
  ELSE LET final_context_type ==
             IF context_type \in s.active_contexts[g] THEN context_type
             ELSE "UNSPECIFIED"
       IN IF ~IsAnyDeviceConnected(s, g) THEN Return(s, FALSE)
          ELSE IF StreamBlockedByTransition(s, g) THEN Return(s, FALSE)
          ELSE StartStream(s, g, final_context_type)

GroupStream(s, g, context_type) == InternalGroupStream(s, g, context_type)

GroupSuspend(s, g) ==
  IF ~FindById(s, g) THEN s
  ELSE IF ~IsAnyDeviceConnected(s, g) THEN s
  ELSE IF IsInTransition(s, g) THEN s
  ELSE IF s.group_state[g] # "STREAMING" THEN s
  ELSE SuspendStream(s, g)

GroupStop(s, g) ==
  LET s1 == Emit(s, <<"GroupStop", g>>)
  IN IF ~FindById(s1, g) THEN s1
     ELSE IF IsEmpty(s1, g) THEN s1
     ELSE IF s1.group_state[g] = "IDLE" THEN s1
     ELSE StopStream(s1, g)

CancelSuspendTimeout(s) ==
  IF s.suspend_timeout_ # kGroupUnknown
  THEN [Emit(s, <<"alarm_cancel", "suspend_timeout_">>)
          EXCEPT !.suspend_timeout_ = kGroupUnknown]
  ELSE s

ClientAudioIntefraceRelease(s) ==
  LET s1 == IF s.audio_source_instance_
            THEN [Emit(s, <<"Release", "AudioSource">>)
                    EXCEPT !.audio_source_instance_ = FALSE,
                           !.af_source_acquired = FALSE]
            ELSE s
  IN IF s1.audio_sink_instance_
     THEN [Emit(s1, <<"Release", "AudioSink">>)
             EXCEPT !.audio_sink_instance_ = FALSE,
                    !.af_sink_acquired = FALSE]
     ELSE s1

UpdateConfigAndCheckIfReconfigurationIsNeeded(s, g, context_type) ==
  IF ~FindById(s, g) THEN Return(s, FALSE)
  ELSE
    LET source_configuration ==
          GetCodecConfigurationByDirection(s, g, context_type, "Sink")
        sink_configuration ==
          GetCodecConfigurationByDirection(s, g, context_type, "Source")
        source_changed ==
          IF source_configuration # InvalidCodecConfig
          THEN source_configuration # s.current_source_codec_config
          ELSE s.current_source_codec_config # InvalidCodecConfig
        sink_changed ==
          IF sink_configuration # InvalidCodecConfig
          THEN sink_configuration # s.current_sink_codec_config
          ELSE s.current_sink_codec_config # InvalidCodecConfig
    IN Return([s EXCEPT !.current_source_codec_config = source_configuration,
                        !.current_sink_codec_config = sink_configuration,
                        !.current_context_type_ = context_type],
              source_changed \/ sink_changed)

\* a variant that goes on when the sink interface is refused
GroupSetActiveWithoutSink(s, g, source_ok, sink_ok) ==
  IF g = kGroupUnknown THEN
    IF s.active_group_id_ = kGroupUnknown THEN s
    ELSE LET s1 == ClientAudioIntefraceRelease(StopAudio(CancelSuspendTimeout(s)))
             s2 == GroupStop(s1, s1.active_group_id_)
         IN [Emit(s2, <<"OnGroupStatus", s2.active_group_id_, "INACTIVE">>)
               EXCEPT !.active_group_id_ = g]
  ELSE IF ~FindById(s, g) THEN s
  ELSE IF s.active_group_id_ # kGroupUnknown /\ s.active_group_id_ = g
  THEN Emit(s, <<"OnGroupStatus", g, "ACTIVE">>)
  ELSE IF ~s.audio_source_instance_ /\ ~source_ok THEN s
  ELSE
    LET s1 == IF ~s.audio_source_instance_
              THEN [Emit(s, <<"Acquire", "AudioSource">>)
                      EXCEPT !.audio_source_instance_ = TRUE,
                             !.af_source_acquired = TRUE]
              ELSE s
        s2 == IF ~s1.audio_sink_instance_ /\ sink_ok
              THEN [Emit(s1, <<"Acquire", "AudioSink">>)
                      EXCEPT !.audio_sink_instance_ = TRUE,
                             !.af_sink_acquired = TRUE]
              ELSE s1
        s3 == UpdateConfigAndCheckIfReconfigurationIsNeeded(s2, g, "MEDIA")
    IN IF s3.current_source_codec_config = InvalidCodecConfig /\
          s3.current_sink_codec_config = InvalidCodecConfig
       THEN s3
       ELSE LET s4 == IF s3.active_group_id_ = kGroupUnknown
                      THEN Emit(Emit(s3, <<"Start", "AudioSource">>),
                                <<"Start", "AudioSink">>)
                      ELSE GroupStop(s3, s3.active_group_id_)
            IN [Emit(s4, <<"OnGroupStatus", g, "ACTIVE">>)
                  EXCEPT !.active_group_id_ = g]

\* source_ok, sink_ok: whether the framework grants Acquire()
GroupSetActive(s, g, source_ok, sink_ok) ==
  IF g = kGroupUnknown THEN
    IF s.active_group_id_ = kGroupUnknown THEN s
    ELSE LET s1 == ClientAudioIntefraceRelease(StopAudio(CancelSuspendTimeout(s)))
             s2 == GroupStop(s1, s1.active_group_id_)
         IN [Emit(s2, <<"OnGroupStatus", s2.active_group_id_, "INACTIVE">>)
               EXCEPT !.active_group_id_ = g]
  ELSE IF ~FindById(s, g) THEN s
  ELSE IF s.active_group_id_ # kGroupUnknown /\ s.active_group_id_ = g
  THEN Emit(s, <<"OnGroupStatus", g, "ACTIVE">>)
  ELSE IF ~s.audio_source_instance_ /\ ~source_ok THEN s
  ELSE
    LET s1 == IF ~s.audio_source_instance_
              THEN [Emit(s, <<"Acquire", "AudioSource">>)
                      EXCEPT !.audio_source_instance_ = TRUE,
                             !.af_source_acquired = TRUE]
              ELSE s
    IN IF ~s1.audio_sink_instance_ /\ ~sink_ok
       THEN [Emit(s1, <<"Release", "AudioSource">>)
               EXCEPT !.af_source_acquired = FALSE]
       ELSE
         LET s2 == IF ~s1.audio_sink_instance_
                   THEN [Emit(s1, <<"Acquire", "AudioSink">>)
                           EXCEPT !.audio_sink_instance_ = TRUE,
                                  !.af_sink_acquired = TRUE]
                   ELSE s1
             s3 == UpdateConfigAndCheckIfReconfigurationIsNeeded(s2, g, "MEDIA")
         IN IF s3.current_source_codec_config = InvalidCodecConfig /\
               s3.current_sink_codec_config = InvalidCodecConfig
            THEN s3
            ELSE LET s4 == IF s3.active_group_id_ = kGroupUnknown
                           THEN Emit(Emit(s3, <<"Start", "AudioSource">>),
                                     <<"Start", "AudioSink">>)
                           ELSE GroupStop(s3, s3.active_group_id_)
                 IN [Emit(s4, <<"OnGroupStatus", g, "ACTIVE">>)
                       EXCEPT !.active_group_id_ = g]

----------------------------------------------------------------------------
(* Audio framework callbacks *)

\* a variant that asks for the stream whatever the target state is
ResumeByGroupStream(s, g) ==
  InternalGroupStream(s, s.active_group_id_, s.current_context_type_)

OnAudioResume(s, g) ==
  IF s.target_state[g] = "STREAMING" THEN Return(s, TRUE)
  ELSE InternalGroupStream(s, s.active_group_id_, s.current_context_type_)

\* a variant that cancels the alarm and sets none
OnAudioSuspendUnarmed(s) ==
  IF s.active_group_id_ = kGroupUnknown THEN s ELSE CancelSuspendTimeout(s)

\* the alarm carries the group that is active when it is set
OnAudioSuspend(s) ==
  IF s.active_group_id_ = kGroupUnknown THEN s
  ELSE [Emit(CancelSuspendTimeout(s), <<"alarm_set", s.active_group_id_>>)
          EXCEPT !.suspend_timeout_ = s.active_group_id_]

OnAudioSinkSuspend(s) ==
  CASE s.audio_sender_state_ \in {"READY_TO_START", "STARTED", "READY_TO_RELEASE"} ->
         LET s1 == [s EXCEPT !.audio_sender_state_ = "READY_TO_RELEASE"]
         IN IF s1.audio_receiver_state_ \in {"IDLE", "READY_TO_RELEASE"}
            THEN OnAudioSuspend(s1) ELSE s1
    [] s.audio_sender_state_ = "RELEASING" -> s
    [] s.audio_sender_state_ = "IDLE" ->
         IF s.audio_receiver_state_ = "READY_TO_RELEASE"
         THEN OnAudioSuspend(s) ELSE s

\* a variant that takes every release for a reconfiguration
IsReleasing(s, g) == TRUE

\* the resume handlers: the group is released to be configured anew
IsPendingConfiguration(s, g) == s.pending_configuration[g]

\* a variant that leaves the suspend timer armed
SinkResumeRestoreKeepsTimer(s) ==
  Emit([s EXCEPT !.audio_sender_state_ = "STARTED"],
       <<"ConfirmStreamingRequest", "AudioSource">>)

\* OnAudioSinkResume, READY_TO_RELEASE: the stream is up, restore it
SinkResumeRestore(s) ==
  Emit(CancelSuspendTimeout([s EXCEPT !.audio_sender_state_ = "STARTED"]),
       <<"ConfirmStreamingRequest", "AudioSource">>)

OnAudioSinkResume(s) ==
  LET g == s.active_group_id_
      cancel == Emit(s, <<"CancelStreamingRequest", "AudioSource">>)
  IN
  IF ~FindById(s, g) THEN s
  ELSE IF GetCodecConfigurationByDirection(s, g, s.current_context_type_, "Sink")
            = InvalidCodecConfig
  THEN cancel
  ELSE
    CASE s.audio_sender_state_ = "STARTED" ->
           Emit(s, <<"ConfirmStreamingRequest", "AudioSource">>)
      [] s.audio_sender_state_ = "IDLE" ->
           (CASE s.audio_receiver_state_ = "IDLE" ->
                  LET s1 == OnAudioResume(s, g)
                  IN IF s1.ret
                     THEN [s1 EXCEPT !.audio_sender_state_ = "READY_TO_START"]
                     ELSE Emit(s1, <<"CancelStreamingRequest", "AudioSource">>)
             [] s.audio_receiver_state_ \in {"READY_TO_START", "STARTED"} ->
                  LET s1 == [s EXCEPT !.audio_sender_state_ = "READY_TO_START"]
                  IN IF s1.group_state[g] = "STREAMING"
                     THEN StartSendingAudio(s1, g) ELSE s1
             [] s.audio_receiver_state_ \in {"RELEASING", "READY_TO_RELEASE"} ->
                  IF IsPendingConfiguration(s, g)
                  THEN [s EXCEPT !.audio_sender_state_ = s.audio_receiver_state_]
                  ELSE cancel)
      [] s.audio_sender_state_ = "READY_TO_START" -> s
      [] s.audio_sender_state_ = "READY_TO_RELEASE" ->
           IF s.audio_receiver_state_ \in {"STARTED", "IDLE", "READY_TO_RELEASE"}
           THEN SinkResumeRestore(s)
           ELSE cancel
      [] s.audio_sender_state_ = "RELEASING" -> cancel

OnAudioSourceSuspend(s) ==
  CASE s.audio_receiver_state_ \in {"READY_TO_START", "STARTED", "READY_TO_RELEASE"} ->
         LET s1 == [s EXCEPT !.audio_receiver_state_ = "READY_TO_RELEASE"]
         IN IF s1.audio_sender_state_ \in {"IDLE", "READY_TO_RELEASE"}
            THEN OnAudioSuspend(s1) ELSE s1
    [] s.audio_receiver_state_ = "RELEASING" -> s
    [] s.audio_receiver_state_ = "IDLE" ->
         IF s.audio_sender_state_ = "READY_TO_RELEASE"
         THEN OnAudioSuspend(s) ELSE s

\* a variant that restores the receiver and leaves the alarm running
SourceResumeRestoreKeepsTimer(s) ==
  Emit([s EXCEPT !.audio_receiver_state_ = "STARTED"],
       <<"ConfirmStreamingRequest", "AudioSink">>)

\* OnAudioSourceResume, READY_TO_RELEASE: the stream is up, restore it
SourceResumeRestore(s) ==
  Emit(CancelSuspendTimeout([s EXCEPT !.audio_receiver_state_ = "STARTED"]),
       <<"ConfirmStreamingRequest", "AudioSink">>)

OnAudioSourceResume(s) ==
  LET g == s.active_group_id_
      cancel == Emit(s, <<"CancelStreamingRequest", "AudioSink">>)
  IN
  IF ~FindById(s, g) THEN s
  ELSE IF GetCodecConfigurationByDirection(s, g, s.current_context_type_, "Source")
            = InvalidCodecConfig
  THEN cancel
  ELSE
    CASE s.audio_receiver_state_ = "STARTED" ->
           Emit(s, <<"ConfirmStreamingRequest", "AudioSink">>)
      [] s.audio_receiver_state_ = "IDLE" ->
           (CASE s.audio_sender_state_ = "IDLE" ->
                  LET s1 == OnAudioResume(s, g)
                  IN IF s1.ret
                     THEN [s1 EXCEPT !.audio_receiver_state_ = "READY_TO_START"]
                     ELSE Emit(s1, <<"CancelStreamingRequest", "AudioSink">>)
             [] s.audio_sender_state_ \in {"READY_TO_START", "STARTED"} ->
                  LET s1 == [s EXCEPT !.audio_receiver_state_ = "READY_TO_START"]
                  IN IF s1.group_state[g] = "STREAMING"
                     THEN StartReceivingAudio(s1, g) ELSE s1
             [] s.audio_sender_state_ \in {"RELEASING", "READY_TO_RELEASE"} ->
                  IF IsPendingConfiguration(s, g)
                  THEN [s EXCEPT !.audio_receiver_state_ = s.audio_sender_state_]
                  ELSE cancel)
      [] s.audio_receiver_state_ = "READY_TO_START" -> s
      [] s.audio_receiver_state_ = "READY_TO_RELEASE" ->
           IF s.audio_sender_state_ \in {"STARTED", "IDLE", "READY_TO_RELEASE"}
           THEN SourceResumeRestore(s)
           ELSE cancel
      [] s.audio_receiver_state_ = "RELEASING" -> cancel

\* a variant that stops the stream and asks for no new configuration
StopStreamWithoutPending(s, g, new_context_type) ==
  LET s1 == UpdateConfigAndCheckIfReconfigurationIsNeeded(s, g, new_context_type)
  IN IF ~s1.ret THEN Return(s1, FALSE)
     ELSE IF s1.group_state[g] # "STREAMING" THEN Return(s1, FALSE)
     ELSE Return(StopStream(CancelSuspendTimeout(s1), g), TRUE)

StopStreamIfNeeded(s, g, new_context_type) ==
  LET s1 == UpdateConfigAndCheckIfReconfigurationIsNeeded(s, g, new_context_type)
  IN IF ~s1.ret THEN Return(s1, FALSE)
     ELSE IF s1.group_state[g] # "STREAMING" THEN Return(s1, FALSE)
     ELSE Return(StopStream([CancelSuspendTimeout(s1)
                               EXCEPT !.pending_configuration[g] = TRUE], g),
                 TRUE)

\* new_context: what ChooseContextType picked, InvalidMetadata when no track counts
OnAudioMetadataUpdate(s, new_context) ==
  LET g == s.active_group_id_
  IN IF new_context = InvalidMetadata THEN s
     ELSE IF ~FindById(s, g) THEN s
     ELSE IF new_context = s.current_context_type_ THEN s
     ELSE LET s1 == StopStreamIfNeeded(
                      [s EXCEPT !.current_context_type_ = new_context],
                      g, new_context)
          IN IF s1.ret THEN s1
             ELSE IF s1.target_state[g] = "STREAMING"
             THEN GroupStream(s1, g, new_context)
             ELSE s1

----------------------------------------------------------------------------
(* Connection handling *)

\* a variant that takes no notice of acl_force_disconnect
DisconnectDeviceGattOnly(s, d, acl_force_disconnect, acl_valid) ==
  LET s1 == Emit(s, <<"DisconnectDevice", d, acl_force_disconnect>>)
  IN IF ~s1.conn_id_[d] THEN s1
     ELSE [Emit(s1, <<"BTA_GATTC_Close", d>>)
             EXCEPT !.conn_id_[d] = FALSE, !.gatt_queue[d] = <<>>]

\* acl_valid: BTM_GetHCIConnHandle finds a handle for the device
DisconnectDevice(s, d, acl_force_disconnect, acl_valid) ==
  LET s1 == Emit(s, <<"DisconnectDevice", d, acl_force_disconnect>>)
  IN IF ~s1.conn_id_[d] THEN s1
     ELSE IF acl_force_disconnect /\ acl_valid
     THEN Emit(s1, <<"acl_disconnect_from_handle", d>>)
     ELSE [Emit(s1, <<"BTA_GATTC_Close", d>>)
             EXCEPT !.conn_id_[d] = FALSE, !.gatt_queue[d] = <<>>]

\* the do-while of OnLeAudioDeviceSetStateTimeout over the devices in q;
\* acl: the devices BTM_GetHCIConnHandle finds a handle for
RECURSIVE DisconnectEach(_, _, _)
DisconnectEach(s, q, acl) ==
  IF q = <<>> THEN s
  ELSE DisconnectEach(DisconnectDevice(s, Head(q), TRUE, Head(q) \in acl),
                      Tail(q), acl)

OnLeAudioDeviceSetStateTimeout(s, g, acl) ==
  IF ~FindById(s, g) THEN s
  ELSE
    LET s1 == CancelStreamingRequest([s EXCEPT !.target_state[g] = "IDLE"])
        leAudioDevice == IF GetFirstActiveDevice(s1, g) # NoDevice
                         THEN GetFirstActiveDevice(s1, g)
                         ELSE GetFirstDevice(s1, g)
    IN IF leAudioDevice = NoDevice THEN s1
       ELSE DisconnectEach(s1, <<leAudioDevice>> \o
                                 ActiveDevicesAfter(s1, g, leAudioDevice), acl)

\* a variant that takes no notice of the reason
CancelsOnInvalidParameter(entry) ==
  entry.response_code = "InvalidConfigurationParameterValue"

\* ControlPointNotificationHandler: the entries that cancel the request
CtpEntryCancels(entry) ==
  /\ entry.response_code = "InvalidConfigurationParameterValue"
  /\ entry.reason = "InvalidAseCisMapping"

RECURSIVE ControlPointNotificationHandler(_, _)
ControlPointNotificationHandler(s, ntf) ==
  IF ntf = <<>> THEN s
  ELSE ControlPointNotificationHandler(
         IF CtpEntryCancels(Head(ntf)) THEN CancelStreamingRequest(s) ELSE s,
         Tail(ntf))

\* LeAudioDevice::SetAvailableContexts: ret is the set of changed bits
SetAvailableContexts(s, d, value) ==
  Return([s EXCEPT !.avail_contexts[d] = value],
         (s.avail_contexts[d] \ value) \cup (value \ s.avail_contexts[d]))

\* a variant that waits for a group in transition only
DeferInTransitionOnly(s, g) == IsInTransition(s, g)

\* LeAudioCharValueHandle: the update waits for the group to become idle
DeferContextUpdate(s, g) ==
  IsInTransition(s, g) \/ s.group_state[g] = "STREAMING"

\* LeAudioCharValueHandle, handle of the available audio contexts
AvailableContextsNotification(s, d, value) ==
  LET s1 == SetAvailableContexts(s, d, value)
      updated_avail_contexts == s1.ret
      g == s1.group_id_[d]
  IN IF updated_avail_contexts = {} THEN s1
     ELSE IF ~FindById(s1, g) THEN s1
     ELSE IF DeferContextUpdate(s1, g)
     THEN [s1 EXCEPT !.pending_update_available_contexts[g] =
                        updated_avail_contexts]
     ELSE LET s2 == UpdateActiveContextsMap(s1, g, updated_avail_contexts)
          IN IF s2.ret # NoContexts
             THEN Emit(s2, <<"OnAudioConf", g, s2.active_contexts[g]>>)
             ELSE s2

\* garbage: what reading the empty optional yields
UpdateContextAndLocations(s, g, d, garbage) ==
  LET s1 == UpdateActiveContextsMap(s, g, s.avail_contexts[d])
      new_group_updated_contexts == s1.ret
      s2 == IF new_group_updated_contexts # NoContexts THEN s1
            ELSE ReloadAudioLocations(s1, g)
  IN IF new_group_updated_contexts # NoContexts
     THEN Emit(s2, <<"OnAudioConf", g, new_group_updated_contexts>>)
     ELSE IF s2.ret = TRUE THEN Emit(s2, <<"OnAudioConf", g, garbage>>)
     ELSE s2

\* configure_ok: LeAudioDevice::ConfigureAses succeeds for the device
AttachToStreamingGroupIfNeeded(s, d, configure_ok) ==
  LET g == s.active_group_id_
      num_of_devices == s.stream_conf[g].num_devices
  IN IF s.group_id_[d] # s.active_group_id_ THEN s
     ELSE IF s.audio_sender_state_ = "IDLE" /\ s.audio_receiver_state_ = "IDLE"
     THEN s
     ELSE IF num_of_devices < NumOfConnected(s, g)
     THEN StopStream([s EXCEPT !.pending_configuration[g] = TRUE], g)
     ELSE IF ~configure_ok THEN s
     ELSE AttachToStream(s, g, d)

----------------------------------------------------------------------------
(* Registries (devices.cc) and the groups module (bta/groups) *)

\* LeAudioDevices::Add: a record with the defaults of its constructor
DevicesAdd(s, d, first_connection) ==
  [s EXCEPT !.leAudioDevices_ = @ \cup {d},
            !.group_id_[d] = kGroupUnknown,
            !.conn_id_[d] = FALSE,
            !.dev_active[d] = FALSE,
            !.avail_contexts[d] = {},
            !.snk_audio_locations_[d] = {},
            !.src_audio_locations_[d] = {},
            !.removing_device_[d] = FALSE,
            !.connecting_actively_[d] = first_connection,
            !.encrypted_[d] = FALSE,
            !.known_service_handles_[d] = FALSE,
            !.notify_connected_after_read_[d] = FALSE,
            !.csis_member_[d] = FALSE,
            !.dev_hdls[d] = {},
            !.ases_[d] = <<>>,
            !.audio_directions_[d] = {}]

\* LeAudioDevices::Remove: the record is destroyed
DevicesRemove(s, d) ==
  [DevicesAdd(s, d, FALSE) EXCEPT !.leAudioDevices_ = s.leAudioDevices_ \ {d}]

\* LeAudioDeviceGroups::Add: ret is FALSE when the group is already there
GroupsAdd(s, g) ==
  IF g \in s.aseGroups_ THEN Return(s, FALSE)
  ELSE Return([s EXCEPT !.aseGroups_ = @ \cup {g},
                        !.group_devices[g] = <<>>,
                        !.group_state[g] = "IDLE",
                        !.target_state[g] = "IDLE",
                        !.pending_configuration[g] = FALSE,
                        !.pending_update_available_contexts[g] = NoContexts,
                        !.active_contexts[g] = {},
                        !.stream_conf[g] = NoStreamConf,
                        !.group_snk_audio_locations_[g] = {},
                        !.group_src_audio_locations_[g] = {},
                        !.cig_created_[g] = FALSE], TRUE)

\* LeAudioDeviceGroups::Remove: the group is destroyed; the model keeps
\* the members and the CIG flag it was destroyed with
GroupsRemove(s, g) ==
  [s EXCEPT !.aseGroups_ = @ \ {g},
            !.group_state[g] = "IDLE",
            !.target_state[g] = "IDLE",
            !.pending_configuration[g] = FALSE,
            !.pending_update_available_contexts[g] = NoContexts,
            !.active_contexts[g] = {},
            !.stream_conf[g] = NoStreamConf,
            !.group_snk_audio_locations_[g] = {},
            !.group_src_audio_locations_[g] = {}]

IsDeviceInTheGroup(s, g, d) == d \in SeqToSet(s.group_devices[g])

\* LeAudioDeviceGroup::AddNode
AddNode(s, g, d) ==
  [s EXCEPT !.group_id_[d] = g, !.group_devices[g] = Append(@, d)]

\* LeAudioDeviceGroup::RemoveNode
RemoveNode(s, g, d) ==
  [s EXCEPT !.group_id_[d] = kGroupUnknown,
            !.dev_active[d] = FALSE,
            !.group_devices[g] = SelectSeq(@, LAMBDA x : x # d)]

\* DeviceGroups::GetGroupId for the CAP service
GetGroupId(s, d) == s.groups_module[d]

\* the id DeviceGroups::AddDevice gives to a group it creates
\* (the lowest id without members; none when the ids of the model are taken)
NewGroupId(s) ==
  IF \A d \in Devices : s.groups_module[d] # "g1" THEN "g1"
  ELSE IF \A d \in Devices : s.groups_module[d] # "g2" THEN "g2"
  ELSE kGroupUnknown

\* the flag the read of the i-th ASE carries
NotifyFlag(s, d, i) ==
  i = Len(s.ases_[d]) /\ s.notify_connected_after_read_[d]

AseInitialStateReadRequest(s, d) ==
  LET reads == [i \in 1..Len(s.ases_[d]) |->
                  [op |-> "ReadCharacteristic", hdl |-> s.ases_[d][i],
                   notify |-> NotifyFlag(s, d, i)]]
  IN [s EXCEPT !.gatt_queue[d] = @ \o reads]

----------------------------------------------------------------------------
(* Group membership *)

RECURSIVE group_add_node(_, _, _, _)
RECURSIVE group_remove_node(_, _, _, _)

OnGroupAddedCb(s, d, uuid, g, garbage) ==
  IF uuid # "kCapServiceUuid" THEN s
  ELSE IF d \notin s.leAudioDevices_ THEN s
  ELSE IF s.group_id_[d] # kGroupUnknown THEN s
  ELSE group_add_node(s, g, d, garbage)

OnGroupMemberAddedCb(s, d, g, garbage) ==
  IF ~FindById(s, g) THEN s
  ELSE IF d \notin s.leAudioDevices_ THEN s
  ELSE IF s.group_id_[d] # kGroupUnknown THEN s
  ELSE group_add_node(s, g, d, garbage)

OnGroupMemberRemovedCb(s, d, g) ==
  IF d \notin s.leAudioDevices_ THEN s
  ELSE IF s.group_id_[d] = kGroupUnknown THEN s
  ELSE IF ~FindById(s, g) THEN s
  ELSE group_remove_node(s, g, d, FALSE)

\* DeviceGroupsCallbacksImpl: the groups module reaches the client only
\* while there is one
OnGroupAdded(s, d, uuid, g, garbage) ==
  IF s.instance THEN OnGroupAddedCb(s, d, uuid, g, garbage) ELSE s

OnGroupMemberAdded(s, d, g, garbage) ==
  IF s.instance THEN OnGroupMemberAddedCb(s, d, g, garbage) ELSE s

OnGroupMemberRemoved(s, d, g) ==
  IF s.instance THEN OnGroupMemberRemovedCb(s, d, g) ELSE s

\* DeviceGroups::AddDevice for the CAP service: the device joins the group
\* (a new one when g is kGroupUnknown) and the module calls its client back
DeviceGroupsAddDevice(s, d, g, garbage) ==
  LET id == IF g = kGroupUnknown THEN NewGroupId(s) ELSE g
      is_new == \A x \in Devices : s.groups_module[x] # id
      s1 == [s EXCEPT !.groups_module[d] = id]
  IN IF s.groups_module[d] # kGroupUnknown \/ id = kGroupUnknown THEN s
     ELSE IF is_new THEN OnGroupAdded(s1, d, "kCapServiceUuid", id, garbage)
     ELSE OnGroupMemberAdded(s1, d, id, garbage)

\* DeviceGroups::RemoveDevice
DeviceGroupsRemoveDevice(s, d, g) ==
  IF s.groups_module[d] # g \/ g = kGroupUnknown THEN s
  ELSE OnGroupMemberRemoved([s EXCEPT !.groups_module[d] = kGroupUnknown],
                            d, g)

\* variants that take no notice of the members, of the CIG
remove_group_unless_cig(s, g) ==
  IF FindById(s, g) /\ ~s.cig_created_[g] THEN GroupsRemove(s, g) ELSE s

remove_group_if_empty(s, g) ==
  IF FindById(s, g) /\ IsEmpty(s, g) THEN GroupsRemove(s, g) ELSE s

remove_group_if_possible(s, g) ==
  IF FindById(s, g) /\ IsEmpty(s, g) /\ ~s.cig_created_[g]
  THEN GroupsRemove(s, g)
  ELSE s

\* UpdateActiveContextsMap(GetActiveContexts()) and, only when that changed
\* nothing, ReloadAudioLocations
RefreshContextsOrLocations(s, g) ==
  LET s1 == UpdateActiveContextsMap(s, g, s.active_contexts[g])
  IN IF s1.ret # NoContexts
     THEN Emit(s1, <<"OnAudioConf", g, s1.active_contexts[g]>>)
     ELSE LET s2 == ReloadAudioLocations(s1, g)
          IN IF s2.ret THEN Emit(s2, <<"OnAudioConf", g, s2.active_contexts[g]>>)
             ELSE s2

\* a variant that forgets the group of the device and leaves the device on
\* the member list
group_forget_node(s, g, d, update_group_module) ==
  [s EXCEPT !.group_id_[d] = kGroupUnknown]

\* a null group is dereferenced
group_remove_node(s, g, d, update_group_module) ==
  IF ~FindById(s, g) THEN Abort(s)
  ELSE
    LET s1 == RemoveNode(s, g, d)
        s2 == IF update_group_module /\ GetGroupId(s1, d) = g
              THEN DeviceGroupsRemoveDevice(s1, d, g)
              ELSE s1
        s3 == Emit(s2, <<"OnGroupNodeStatus", d, g, "REMOVED">>)
    IN IF IsEmpty(s3, g) THEN remove_group_if_possible(s3, g)
       ELSE RefreshContextsOrLocations(s3, g)

\* group_add_node: the device leaves the group it had
LeaveOldGroup(s, old_group_id, d, update_group_module) ==
  IF old_group_id # kGroupUnknown
  THEN group_remove_node(s, old_group_id, d, update_group_module)
  ELSE s

\* group_add_node once new_group is known
JoinGroup(s, new_group, d, old_group_id, garbage) ==
  LET s1 == LeaveOldGroup(s, old_group_id, d, FALSE)
      s2 == Emit(AddNode(s1, new_group, d),
                 <<"OnGroupNodeStatus", d, new_group, "ADDED">>)
      s3 == IF s2.conn_id_[d] THEN AseInitialStateReadRequest(s2, d) ELSE s2
      s4 == IF FindById(s3, old_group_id)
            THEN RefreshContextsOrLocations(s3, old_group_id)
            ELSE s3
  IN IF s1.aborted THEN s1
     ELSE UpdateContextAndLocations(s4, new_group, d, garbage)

group_add_node(s, group_id, d, garbage) ==
  IF d \notin s.leAudioDevices_ /\ group_id = kGroupUnknown THEN s
  ELSE
    LET s1 == IF d \notin s.leAudioDevices_ THEN DevicesAdd(s, d, TRUE) ELSE s
        old_group_id == s1.group_id_[d]
        id == GetGroupId(s1, d)
    IN IF old_group_id # kGroupUnknown /\ ~FindById(s1, old_group_id)
       THEN Abort(s1)
       ELSE IF group_id = kGroupUnknown
       THEN IF id = kGroupUnknown
            THEN DeviceGroupsAddDevice(s1, d, kGroupUnknown, garbage)
            ELSE LET s2 == GroupsAdd(s1, id)
                 IN IF ~s2.ret THEN s2
                    ELSE JoinGroup(s2, id, d, old_group_id, garbage)
       ELSE IF id # group_id THEN Abort(s1)
       ELSE IF ~FindById(s1, group_id)
       THEN JoinGroup(GroupsAdd(s1, group_id), group_id, d, old_group_id,
                      garbage)
       ELSE IF IsDeviceInTheGroup(s1, group_id, d) THEN s1
       ELSE JoinGroup(s1, group_id, d, old_group_id, garbage)

GroupAddNode(s, group_id, d, garbage) ==
  LET id == GetGroupId(s, d)
  IN IF id = group_id THEN s
     ELSE DeviceGroupsAddDevice(
            IF id # kGroupUnknown THEN DeviceGroupsRemoveDevice(s, d, id)
            ELSE s,
            d, group_id, garbage)

GroupRemoveNode(s, group_id, d) ==
  IF d \notin s.leAudioDevices_ THEN s
  ELSE IF s.group_id_[d] # group_id THEN s
  ELSE IF ~FindById(s, group_id) THEN s
  ELSE group_remove_node(s, group_id, d, TRUE)

----------------------------------------------------------------------------
(* Connection, encryption and service discovery *)

\* callbacks_->OnConnectionState: the service takes note of the state
OnConnectionState(s, state, d) ==
  [Emit(s, <<"OnConnectionState", state, d>>)
     EXCEPT !.connection_state[d] = state]

connectionReady(s, d, garbage, configure_ok) ==
  LET s1 == OnConnectionState(s, "CONNECTED", d)
  IN IF s1.group_id_[d] # kGroupUnknown
     THEN AttachToStreamingGroupIfNeeded(
            UpdateContextAndLocations(s1, s1.group_id_[d], d, garbage),
            d, configure_ok)
     ELSE s1

OnEncryptionComplete(s, d, status, garbage, configure_ok) ==
  IF d \notin s.leAudioDevices_ THEN s
  ELSE IF status # "BTM_SUCCESS"
  THEN LET s1 == Emit(s, <<"BTA_GATTC_Close", d>>)
       IN IF s1.connecting_actively_[d]
          THEN OnConnectionState(s1, "DISCONNECTED", d)
          ELSE s1
  ELSE IF s.encrypted_[d] THEN s
  ELSE LET s1 == [s EXCEPT !.encrypted_[d] = TRUE]
       IN IF s1.known_service_handles_[d] /\
             ~s1.notify_connected_after_read_[d]
          THEN connectionReady(s1, d, garbage, configure_ok)
          ELSE [Emit(s1, <<"BTA_GATTC_ServiceSearchRequest", d>>)
                  EXCEPT !.service_search[d] = TRUE]

\* link: what the security manager knows of the link: "pending" (a security
\* procedure is under way), "encrypted", "bonded" (the key is known), "none"
OnGattConnected(s, d, status, mtu, link, garbage, configure_ok) ==
  IF d \notin s.leAudioDevices_ THEN s
  ELSE IF status # "GATT_SUCCESS"
  THEN IF ~s.connecting_actively_[d] THEN s
       ELSE OnConnectionState(s, "DISCONNECTED", d)
  ELSE
    LET s1 == [Emit(s, <<"BTM_RequestPeerSCA", d>>)
                 EXCEPT !.connecting_actively_[d] = FALSE,
                        !.conn_id_[d] = TRUE]
        s2 == IF mtu = "GATT_DEF_BLE_MTU_SIZE"
              THEN [Emit(s1, <<"ConfigureMtu", d, kLeAudioMtu>>)
                      EXCEPT !.gatt_queue[d] =
                               Append(@, [op |-> "ConfigureMtu",
                                          hdl |-> "mtu", notify |-> FALSE])]
              ELSE s1
        s3 == IF s2.known_service_handles_[d]
              THEN Emit(s2, <<"RegisterKnownNotifications", d>>)
              ELSE s2
    IN CASE link = "pending" -> s3
         [] link = "encrypted" ->
              OnEncryptionComplete(s3, d, "BTM_SUCCESS", garbage, configure_ok)
         [] link = "bonded" -> Emit(s3, <<"BTM_SetEncryption", d>>)
         [] OTHER -> s3

\* the state machine learns that the link of an active member is gone
ProcessHciNotifAclDisconnected(s, g, d) ==
  IF ~FindById(s, g) \/ ~s.dev_active[d] THEN s
  ELSE LET s1 == [s EXCEPT !.dev_active[d] = FALSE]
       IN IF GetFirstActiveDevice(s1, g) # NoDevice THEN s1
          ELSE CallbacksStatusReportCb([s1 EXCEPT !.group_state[g] = "IDLE",
                                         !.target_state[g] = "IDLE",
                                         !.stream_conf[g] = NoStreamConf],
                              g, "IDLE")

\* local_host: the disconnect was asked for by this host
OnGattDisconnected(s, d, local_host) ==
  IF d \notin s.leAudioDevices_ THEN s
  ELSE
    LET s1 == ProcessHciNotifAclDisconnected(s, s.group_id_[d], d)
        s2 == [OnConnectionState(s1, "DISCONNECTED", d)
                 EXCEPT !.conn_id_[d] = FALSE, !.encrypted_[d] = FALSE]
    IN IF s2.removing_device_[d]
       THEN DevicesRemove(IF s2.group_id_[d] # kGroupUnknown
                          THEN group_remove_node(s2, s2.group_id_[d], d, TRUE)
                          ELSE s2,
                          d)
       ELSE IF ~local_host THEN Emit(s2, <<"BTA_GATTC_Open", d>>)
       ELSE s2

OnServiceChangeEvent(s, d) ==
  IF d \notin s.leAudioDevices_ THEN s
  ELSE [Emit(s, <<"DeregisterNotifications", d>>)
          EXCEPT !.known_service_handles_[d] = FALSE,
                 !.csis_member_[d] = FALSE,
                 !.gatt_queue[d] = <<>>]

OnGattServiceDiscoveryDone(s, d) ==
  IF d \notin s.leAudioDevices_ THEN s
  ELSE IF s.known_service_handles_[d] THEN s
  ELSE [Emit(s, <<"BTA_GATTC_ServiceSearchRequest", d>>)
          EXCEPT !.service_search[d] = TRUE]

\* BtaGattQueue::ReadCharacteristic
ReadCharacteristic(s, d, hdl, notify) ==
  [s EXCEPT !.gatt_queue[d] =
              Append(@, [op |-> "ReadCharacteristic", hdl |-> hdl,
                         notify |-> notify])]

\* the characteristics of the PAC service, in the order of the database;
\* ret is FALSE when the device was disconnected
RECURSIVE DiscoverPacs(_, _, _)
DiscoverPacs(s, d, characteristics) ==
  IF characteristics = <<>> THEN Return(s, TRUE)
  ELSE
    LET charac == Head(characteristics)
        rest == Tail(characteristics)
        stored == [s EXCEPT !.dev_hdls[d] = @ \cup {charac.uuid}]
        gone(x) == Return(DisconnectDevice(x, d, FALSE, FALSE), FALSE)
    IN IF charac.uuid \in {"SinkPAC", "SourcePAC"}
       THEN IF ~charac.ccc \/ ~charac.subscribes THEN gone(s)
            ELSE DiscoverPacs(
                   [ReadCharacteristic(s, d, charac.uuid, FALSE)
                      EXCEPT !.dev_hdls[d] = @ \cup {charac.uuid}],
                   d, rest)
       ELSE IF charac.uuid \in OptionalCcc
       THEN IF charac.ccc /\ ~charac.subscribes THEN gone(stored)
            ELSE DiscoverPacs(ReadCharacteristic(stored, d, charac.uuid, FALSE),
                              d, rest)
       ELSE IF charac.uuid = "AvailableAudioContexts"
       THEN IF ~charac.ccc \/ ~charac.subscribes THEN gone(stored)
            ELSE DiscoverPacs(ReadCharacteristic(stored, d, charac.uuid, FALSE),
                              d, rest)
       ELSE DiscoverPacs(s, d, rest)

\* the characteristics of the ASE service
RECURSIVE DiscoverAses(_, _, _)
DiscoverAses(s, d, characteristics) ==
  IF characteristics = <<>> THEN Return(s, TRUE)
  ELSE
    LET charac == Head(characteristics)
        rest == Tail(characteristics)
        gone(x) == Return(DisconnectDevice(x, d, FALSE, FALSE), FALSE)
    IN IF charac.uuid \in AseCharacteristics
       THEN IF ~charac.ccc \/ ~charac.subscribes THEN gone(s)
            ELSE DiscoverAses([s EXCEPT !.ases_[d] = Append(@, charac.uuid)],
                              d, rest)
       ELSE IF charac.uuid = "AseControlPoint"
       THEN IF ~charac.ccc \/ ~charac.subscribes
            THEN gone([s EXCEPT !.dev_hdls[d] = @ \cup {"AseControlPoint"}])
            ELSE DiscoverAses(
                   [s EXCEPT !.dev_hdls[d] = @ \cup {"AseControlPoint"}],
                   d, rest)
       ELSE DiscoverAses(s, d, rest)

\* db: the services the stack found on the peer
OnServiceSearchComplete(s, d, status, db, garbage) ==
  LET s0 == [s EXCEPT !.service_search[d] = FALSE]
  IN
  IF ~s0.conn_id_[d] THEN s0
  ELSE IF status # "GATT_SUCCESS" THEN DisconnectDevice(s0, d, FALSE, FALSE)
  ELSE
    LET s1 == IF db.csis THEN [s0 EXCEPT !.csis_member_[d] = TRUE] ELSE s0
    IN IF ~db.pac_svc \/ ~db.ase_svc
       THEN DisconnectDevice(s1, d, FALSE, FALSE)
       ELSE
         LET s2 == DiscoverPacs(
                     [s1 EXCEPT !.dev_hdls[d] = @ \ {"SinkPAC", "SourcePAC"}],
                     d, db.pacs)
             s3 == DiscoverAses([s2 EXCEPT !.ases_[d] = <<>>], d, db.ascs)
             s4 == [s3 EXCEPT !.known_service_handles_[d] = TRUE,
                              !.notify_connected_after_read_[d] = TRUE]
         IN IF ~s2.ret THEN s2
            ELSE IF ~s3.ret THEN s3
            ELSE IF s4.group_id_[d] # kGroupUnknown
            THEN AseInitialStateReadRequest(s4, d)
            ELSE IF GetGroupId(s4, d) # kGroupUnknown
            THEN group_add_node(s4, GetGroupId(s4, d), d, garbage)
            ELSE IF s4.csis_member_[d] THEN s4
            ELSE DeviceGroupsAddDevice(s4, d, kGroupUnknown, garbage)

\* LeAudioCharValueHandle, handles of the audio locations
AudioLocationsValue(s, d, direction, value) ==
  LET known == direction \in s.audio_directions_[d]
      old == IF direction = "Sink" THEN s.snk_audio_locations_[d]
             ELSE s.src_audio_locations_[d]
      s1 == IF direction = "Sink"
            THEN Emit([s EXCEPT !.audio_directions_[d] = @ \cup {"Sink"},
                                !.snk_audio_locations_[d] = value],
                      <<"OnSinkAudioLocationAvailable", d, value>>)
            ELSE [s EXCEPT !.audio_directions_[d] = @ \cup {"Source"},
                           !.src_audio_locations_[d] = value]
      g == s1.group_id_[d]
  IN IF known /\ old = value THEN s
     ELSE IF ~FindById(s1, g) THEN s1
     ELSE LET s2 == ReloadAudioLocations(s1, g)
          IN IF s2.ret THEN Emit(s2, <<"OnAudioConf", g, s2.active_contexts[g]>>)
             ELSE s2

\* LeAudioCharValueHandle, handles of the PAC records
PacValue(s, d, parsed) ==
  IF ~parsed THEN s
  ELSE IF ~FindById(s, s.group_id_[d]) THEN s
  ELSE UpdateActiveContextsMap(s, s.group_id_[d], s.avail_contexts[d])

\* value: the parsed value of the characteristic: a location set, a context
\* set, whether the PAC records parse, a control-point notification; the
\* value of an ASE read while nothing streams is the state the state machine
\* holds already
LeAudioCharValueHandle(s, d, hdl, value) ==
  IF ~s.conn_id_[d] THEN s
  ELSE IF hdl \in SeqToSet(s.ases_[d]) THEN s
  ELSE IF hdl \notin s.dev_hdls[d] THEN s
  ELSE CASE hdl \in {"SinkPAC", "SourcePAC"} -> PacValue(s, d, value)
         [] hdl = "SinkAudioLocations" -> AudioLocationsValue(s, d, "Sink", value)
         [] hdl = "SourceAudioLocations" ->
              AudioLocationsValue(s, d, "Source", value)
         [] hdl = "AvailableAudioContexts" ->
              AvailableContextsNotification(s, d, value)
         [] hdl = "AseControlPoint" -> ControlPointNotificationHandler(s, value)
         [] OTHER -> s

\* rsp: the request at the head of the queue, answered
OnGattReadRspStatic(s, d, rsp, status, value, garbage, configure_ok) ==
  LET s1 == IF status = "GATT_SUCCESS"
            THEN LeAudioCharValueHandle(s, d, rsp.hdl, value)
            ELSE s
  IN IF ~s.instance THEN s
     ELSE IF rsp.notify
     THEN IF ~s1.conn_id_[d] THEN Abort(s1)
          ELSE connectionReady(
                 [s1 EXCEPT !.notify_connected_after_read_[d] = FALSE],
                 d, garbage, configure_ok)
     ELSE s1

----------------------------------------------------------------------------
(* The facade: devices and groups *)

Connect(s, d) ==
  Emit(IF d \notin s.leAudioDevices_ THEN DevicesAdd(s, d, TRUE)
       ELSE [s EXCEPT !.connecting_actively_[d] = TRUE],
       <<"BTA_GATTC_Open", d>>)

AddFromStorage(s, d, autoconnect, garbage) ==
  LET s1 == IF d \notin s.leAudioDevices_ THEN DevicesAdd(s, d, FALSE) ELSE s
      s2 == IF GetGroupId(s1, d) # kGroupUnknown
            THEN group_add_node(s1, GetGroupId(s1, d), d, garbage)
            ELSE s1
  IN IF autoconnect THEN Emit(s2, <<"BTA_GATTC_Open", d>>) ELSE s2

BackgroundConnectIfGroupConnected(s, d) ==
  IF ~FindById(s, s.group_id_[d]) THEN s
  ELSE IF ~IsAnyDeviceConnected(s, s.group_id_[d]) THEN s
  ELSE Emit(s, <<"BTA_GATTC_Open", d>>)

Disconnect(s, d) ==
  IF d \notin s.leAudioDevices_ THEN s
  ELSE LET s1 == IF s.connecting_actively_[d]
                 THEN [Emit(s, <<"BTA_GATTC_CancelOpen", d>>)
                         EXCEPT !.connecting_actively_[d] = FALSE]
                 ELSE s
           s2 == Emit(s1, <<"BTA_GATTC_CancelOpen", d>>)
       IN IF s2.conn_id_[d] THEN DisconnectDevice(s2, d, FALSE, FALSE)
          ELSE BackgroundConnectIfGroupConnected(s2, d)

\* a variant that does not wait for the disconnection
RemoveDeviceAtOnce(s, d) ==
  IF d \notin s.leAudioDevices_ THEN s
  ELSE LET s1 == IF s.conn_id_[d] THEN Disconnect(s, d) ELSE s
       IN DevicesRemove(IF s1.group_id_[d] # kGroupUnknown
                        THEN group_remove_node(s1, s1.group_id_[d], d, TRUE)
                        ELSE s1,
                        d)

RemoveDevice(s, d) ==
  IF d \notin s.leAudioDevices_ THEN s
  ELSE IF s.conn_id_[d]
  THEN [Disconnect(s, d) EXCEPT !.removing_device_[d] = TRUE]
  ELSE DevicesRemove(IF s.group_id_[d] # kGroupUnknown
                     THEN group_remove_node(s, s.group_id_[d], d, TRUE)
                     ELSE s,
                     d)

\* the while loop of GroupDestroy over the members in q
RECURSIVE RemoveEach(_, _)
RemoveEach(s, q) ==
  IF q = <<>> THEN s ELSE RemoveEach(RemoveDevice(s, Head(q)), Tail(q))

GroupDestroy(s, g) ==
  IF ~FindById(s, g) THEN s ELSE RemoveEach(s, s.group_devices[g])

\* the state machine takes note of the CIG: the group holds it from the
\* successful creation to the completion of its removal
\* a variant that notes the state of the CIG and leaves the registry alone
IsoCigEventsNoted(s, event_type, g, status) ==
  IF ~FindById(s, g) THEN s
  ELSE [s EXCEPT !.cig_created_[g] =
                   (event_type = "kIsoEventCigOnCreateCmpl"
                    /\ status = "HCI_SUCCESS")]

IsoCigEventsCb(s, event_type, g, status) ==
  IF ~FindById(s, g) THEN s
  ELSE CASE event_type = "kIsoEventCigOnCreateCmpl" ->
              IF status = "HCI_SUCCESS"
              THEN [s EXCEPT !.cig_created_[g] = TRUE]
              ELSE s
         [] event_type = "kIsoEventCigOnRemoveCmpl" ->
              remove_group_if_possible([s EXCEPT !.cig_created_[g] = FALSE], g)
         [] OTHER -> s

----------------------------------------------------------------------------
(* Uplink: decoded microphone frames on their way to the audio framework  *)

\* the null pointer where a channel has no data
NullPcm == <<>>
NoCis == "no cis"

\* stream_conf.source_streams of the group: one CIS for each active member
\* with a source location, named by the member
SourceStreams(s, g) ==
  IF ~HasStreamDirection(s, g, "Source") THEN <<>>
  ELSE SelectSeq(ActiveDevices(s, g),
                 LAMBDA d : s.src_audio_locations_[d] # {})

\* the handle the loop over source_streams leaves for a location
CisHandleOf(s, g, location) ==
  LET streams == SelectSeq(SourceStreams(s, g),
                           LAMBDA d : location \in s.src_audio_locations_[d])
  IN IF streams = <<>> THEN NoCis ELSE streams[Len(streams)]

\* data_interval_us of a codec configuration: 10 ms in the configurations
\* of the model, 0 in the invalid one
DataIntervalUs(config) == IF config = InvalidCodecConfig THEN 0 ELSE 10000

SendAudioDataToAF(s, bt_got_stereo, left, right) ==
  Emit(s, <<"SendAudioDataToAF", bt_got_stereo, left, right>>)

\* the decoded frame takes the place of what the cache holds
CacheChannelData(s, pcm_data_decoded, timestamp, is_left) ==
  [s EXCEPT !.cached_channel_data_ = pcm_data_decoded,
            !.cached_channel_timestamp_ = timestamp,
            !.cached_channel_is_left_ = is_left]

\* the cached frame goes to the framework alone
SendCachedChannelData(s, cached_is_left) ==
  IF cached_is_left # 0
  THEN SendAudioDataToAF(s, FALSE, s.cached_channel_data_, NullPcm)
  ELSE SendAudioDataToAF(s, FALSE, NullPcm, s.cached_channel_data_)

\* pcm_data_decoded: what lc3_decode leaves in the buffer, err: what it
\* returns; garbage: what reading cached_channel_is_left_ yields before it
\* was written
SendAudioData(s, cis_conn_hdl, timestamp, pcm_data_decoded, err, garbage) ==
  IF s.active_group_id_ = kGroupUnknown \/ s.audio_receiver_state_ # "STARTED"
  THEN s
  ELSE IF ~FindById(s, s.active_group_id_) THEN s
  ELSE
    LET g == s.active_group_id_
        left_cis_handle == CisHandleOf(s, g, "FL")
        right_cis_handle == CisHandleOf(s, g, "FR")
        is_left == IF cis_conn_hdl = left_cis_handle THEN 1 ELSE 0
        cached_is_left == IF s.cached_channel_is_left_ = Uninitialized
                          THEN garbage ELSE s.cached_channel_is_left_
    IN IF cis_conn_hdl # left_cis_handle /\ cis_conn_hdl # right_cis_handle
       THEN s
       ELSE IF DataIntervalUs(s.current_sink_codec_config) \notin {10000, 7500}
       THEN s
       ELSE IF err < 0 THEN s
       ELSE IF left_cis_handle = NoCis \/ right_cis_handle = NoCis
       THEN SendAudioDataToAF(s, FALSE, pcm_data_decoded, NullPcm)
       ELSE IF s.cached_channel_timestamp_ = 0 /\ s.cached_channel_data_ = <<>>
       THEN CacheChannelData(s, pcm_data_decoded, timestamp, is_left)
       ELSE IF cached_is_left # is_left
       THEN IF timestamp = s.cached_channel_timestamp_
            THEN CleanCachedMicrophoneData(
                   IF is_left # 0
                   THEN SendAudioDataToAF(s, TRUE, s.cached_channel_data_,
                                          pcm_data_decoded)
                   ELSE SendAudioDataToAF(s, TRUE, pcm_data_decoded,
                                          s.cached_channel_data_))
            ELSE CacheChannelData(SendCachedChannelData(s, cached_is_left),
                                  pcm_data_decoded, timestamp, is_left)
       ELSE CacheChannelData(SendCachedChannelData(s, cached_is_left),
                             pcm_data_decoded, timestamp, is_left)

\* kIsoEventCisDataAvailable
IsoCisEventsCb(s, cis_conn_hdl, timestamp, pcm_data_decoded, err, garbage) ==
  IF s.audio_receiver_state_ # "STARTED" THEN s
  ELSE SendAudioData(s, cis_conn_hdl, timestamp, pcm_data_decoded, err,
                     garbage)

----------------------------------------------------------------------------
(* Group state machine: ASE state notifications move the group one rung   *)
(* towards its target and report to StatusReportCb                        *)

\* the rung the group reaches next on its way to the target; the rungs
\* below the one the coordinator looks at are taken in one step
NextRung(state, target) ==
  CASE target = "STREAMING" ->
         IF state = "ENABLING" THEN "STREAMING" ELSE "ENABLING"
    [] target = "QOS_CONFIGURED" ->
         IF state = "STREAMING" THEN "DISABLING" ELSE "QOS_CONFIGURED"
    [] target = "CODEC_CONFIGURED" -> "CODEC_CONFIGURED"
    [] OTHER -> IF state = "RELEASING" THEN "IDLE" ELSE "RELEASING"

\* a configuration asked for by ConfigureStream is under way
IsConfiguring(s, g) ==
  /\ s.target_state[g] = "CODEC_CONFIGURED"
  /\ \/ s.group_state[g] # "CODEC_CONFIGURED"
     \/ s.pending_configuration[g]

\* autonomous: the peer keeps its codec configuration cached on release
ProcessGattNotifEvent(s, g, autonomous) ==
  LET rung == NextRung(s.group_state[g], s.target_state[g])
      s1 == [s EXCEPT !.group_state[g] = rung]
  IN CASE rung = "STREAMING" -> CallbacksStatusReportCb(s1, g, "STREAMING")
       [] rung = "QOS_CONFIGURED" /\ s.target_state[g] = "QOS_CONFIGURED" ->
            CallbacksStatusReportCb(s1, g, "SUSPENDED")
       [] rung = "CODEC_CONFIGURED" /\ s.target_state[g] = "CODEC_CONFIGURED" ->
            CallbacksStatusReportCb([s1 EXCEPT !.pending_configuration[g] = FALSE],
                           g, "CONFIGURED_BY_USER")
       [] rung = "IDLE" /\ autonomous ->
            CallbacksStatusReportCb([s1 EXCEPT !.group_state[g] = "CODEC_CONFIGURED",
                                      !.target_state[g] = "CODEC_CONFIGURED",
                                      !.dev_active = Deactivate(s1, g)],
                           g, "CONFIGURED_AUTONOMOUS")
       [] rung = "IDLE" /\ ~autonomous ->
            CallbacksStatusReportCb([s1 EXCEPT !.dev_active = Deactivate(s1, g),
                                      !.stream_conf[g] = NoStreamConf],
                           g, "IDLE")
       [] OTHER -> s1

----------------------------------------------------------------------------
(* The state machine of the model *)

----------------------------------------------------------------------------
(* The callback objects: the events of the stack, the controller, the      *)
(* state machine and the audio framework reach the client through the      *)
(* module-global pointer, and LeAudioClient::Cleanup clears it             *)

\* a variant that hands every event on
Dispatched(s, handled) == handled

\* le_audio_gattc_callback: handled is what the handler of the event makes
\* of s
le_audio_gattc_callback(s, handled) == IF ~s.instance THEN s ELSE handled

\* LeAudioStateMachineHciCallbacksImpl
OnCigEvent(s, event_type, g, status) ==
  IF s.instance THEN IsoCigEventsCb(s, event_type, g, status) ELSE s

OnCisEvent(s, cis_conn_hdl, timestamp, pcm_data_decoded, err, garbage) ==
  IF s.instance
  THEN IsoCisEventsCb(s, cis_conn_hdl, timestamp, pcm_data_decoded, err,
                      garbage)
  ELSE s

\* CallbacksImpl
OnStateTransitionTimeout(s, g, acl) ==
  IF s.instance THEN OnLeAudioDeviceSetStateTimeout(s, g, acl) ELSE s

\* LeAudioClientAudioSinkReceiverImpl: the promises of the framework are
\* fulfilled whether there is a client or not
SinkReceiverOnAudioSuspend(s) ==
  Emit(IF s.instance THEN OnAudioSinkSuspend(s) ELSE s,
       <<"set_value", "do_suspend_promise">>)

SinkReceiverOnAudioResume(s) ==
  IF s.instance THEN OnAudioSinkResume(s) ELSE s

SinkReceiverOnAudioMetadataUpdate(s, new_context) ==
  Emit(IF s.instance THEN OnAudioMetadataUpdate(s, new_context) ELSE s,
       <<"set_value", "do_metadata_update_promise">>)

\* LeAudioClientAudioSourceReceiverImpl
SourceReceiverOnAudioSuspend(s) ==
  Emit(IF s.instance THEN OnAudioSourceSuspend(s) ELSE s,
       <<"set_value", "do_suspend_promise">>)

SourceReceiverOnAudioResume(s) ==
  IF s.instance THEN OnAudioSourceResume(s) ELSE s

\* LeAudioDevices::Cleanup and LeAudioDeviceGroups::Cleanup: every record
\* is destroyed
RECURSIVE DevicesCleanup(_, _)
DevicesCleanup(s, devices) ==
  IF devices = {} THEN s
  ELSE LET d == CHOOSE x \in devices : TRUE
       IN DevicesCleanup(DevicesRemove(s, d), devices \ {d})

RECURSIVE GroupsCleanup(_, _)
GroupsCleanup(s, groups) ==
  IF groups = {} THEN s
  ELSE LET g == CHOOSE x \in groups : TRUE
       IN GroupsCleanup(
            [GroupsRemove(s, g) EXCEPT !.group_devices[g] = <<>>],
            groups \ {g})

\* LeAudioClientImpl::Cleanup
Cleanup(s) ==
  LET s1 == Emit(CancelSuspendTimeout(s), <<"groupStateMachine_->Cleanup">>)
      s2 == DevicesCleanup(s1, s1.leAudioDevices_)
      s3 == GroupsCleanup(s2, s2.aseGroups_)
      s4 == StopAudio(s3)
  IN Emit(Emit(s4, <<"BTA_GATTC_AppDeregister">>), <<"cleanupCb">>)

\* LeAudioClient::Cleanup: the pointer is cleared before the object is
\* cleaned up and deleted
LeAudioClientCleanup(s) ==
  IF ~s.instance THEN s
  ELSE Emit(Cleanup([s EXCEPT !.instance = FALSE]), <<"delete">>)

\* LeAudioClient::Get, through which every call of the API goes, accepts
\* no call when there is no client
LeAudioClientGet(s, handled) == IF s.instance THEN handled ELSE Abort(s)

Commit(s) ==
  /\ aseGroups_' = s.aseGroups_
  /\ group_devices' = s.group_devices
  /\ group_state' = s.group_state
  /\ target_state' = s.target_state
  /\ pending_configuration' = s.pending_configuration
  /\ pending_update_available_contexts' = s.pending_update_available_contexts
  /\ active_contexts' = s.active_contexts
  /\ stream_conf' = s.stream_conf
  /\ group_snk_audio_locations_' = s.group_snk_audio_locations_
  /\ group_src_audio_locations_' = s.group_src_audio_locations_
  /\ group_id_' = s.group_id_
  /\ gatt_link' = s.gatt_link
  /\ conn_id_' = s.conn_id_
  /\ dev_active' = s.dev_active
  /\ avail_contexts' = s.avail_contexts
  /\ snk_audio_locations_' = s.snk_audio_locations_
  /\ src_audio_locations_' = s.src_audio_locations_
  /\ active_group_id_' = s.active_group_id_
  /\ current_context_type_' = s.current_context_type_
  /\ audio_sender_state_' = s.audio_sender_state_
  /\ audio_receiver_state_' = s.audio_receiver_state_
  /\ current_source_codec_config' = s.current_source_codec_config
  /\ current_sink_codec_config' = s.current_sink_codec_config
  /\ lc3_encoder_mem' = s.lc3_encoder_mem
  /\ lc3_decoder_mem' = s.lc3_decoder_mem
  /\ audio_source_instance_' = s.audio_source_instance_
  /\ audio_sink_instance_' = s.audio_sink_instance_
  /\ af_source_acquired' = s.af_source_acquired
  /\ af_sink_acquired' = s.af_sink_acquired
  /\ suspend_timeout_' = s.suspend_timeout_
  /\ leAudioDevices_' = s.leAudioDevices_
  /\ cig_created_' = s.cig_created_
  /\ removing_device_' = s.removing_device_
  /\ connecting_actively_' = s.connecting_actively_
  /\ encrypted_' = s.encrypted_
  /\ known_service_handles_' = s.known_service_handles_
  /\ notify_connected_after_read_' = s.notify_connected_after_read_
  /\ csis_member_' = s.csis_member_
  /\ dev_hdls' = s.dev_hdls
  /\ ases_' = s.ases_
  /\ audio_directions_' = s.audio_directions_
  /\ service_search' = s.service_search
  /\ gatt_queue' = s.gatt_queue
  /\ connection_state' = s.connection_state
  /\ groups_module' = s.groups_module
  /\ cached_channel_data_' = s.cached_channel_data_
  /\ cached_channel_timestamp_' = s.cached_channel_timestamp_
  /\ cached_channel_is_left_' = s.cached_channel_is_left_
  /\ instance' = s.instance
  /\ aborted' = s.aborted
  /\ UNCHANGED <<in_range, supported, usages, grants, faults>>

\* the surroundings the client is started in:
\*  - d1 in reach, offering media and conversational audio, peers reliable;
\*  - the pair of g1 in reach, media only, links and peers unreliable;
\*  - one device of each group in reach, media only, peers reliable;
\*  - the audio framework refusing one of its interfaces
MediaOnly == [d \in Devices |-> {"MEDIA"}]

Surroundings ==
  {[in_range |-> {"d1"},
    supported |-> [d \in Devices |->
                     IF d = "d1" THEN {"MEDIA", "CONVERSATIONAL"} ELSE {"MEDIA"}],
    usages |-> {"MEDIA", "CONVERSATIONAL"},
    grants |-> {"AudioSource", "AudioSink"},
    faults |-> {}],
   [in_range |-> {"d1", "d2"}, supported |-> MediaOnly, usages |-> {"MEDIA"},
    grants |-> {"AudioSource", "AudioSink"},
    faults |-> {"link loss", "no answer"}],
   [in_range |-> {"d1", "d3"}, supported |-> MediaOnly, usages |-> {"MEDIA"},
    grants |-> {"AudioSource", "AudioSink"},
    faults |-> {}],
   [in_range |-> {"d1"}, supported |-> MediaOnly, usages |-> {"MEDIA"},
    grants |-> {"AudioSource"}, faults |-> {}],
   [in_range |-> {"d1"}, supported |-> MediaOnly, usages |-> {"MEDIA"},
    grants |-> {"AudioSink"}, faults |-> {}]}

\* the object after LeAudioClient::Initialize and AddFromStorage of two
\* groups: g1 with the pair d1, d2 and g2 with d3; the devices have been
\* discovered in an earlier connection and nothing is connected
Restored(w, microphones) ==
  /\ in_range = w.in_range
  /\ supported = w.supported
  /\ usages = w.usages
  /\ grants = w.grants
  /\ faults = w.faults
  /\ avail_contexts = w.supported
  /\ aseGroups_ = GroupIds
  /\ group_devices = [g \in GroupIds |->
                        IF g = "g1" THEN <<"d1", "d2">> ELSE <<"d3">>]
  /\ group_state = [g \in GroupIds |-> "IDLE"]
  /\ target_state = [g \in GroupIds |-> "IDLE"]
  /\ pending_configuration = [g \in GroupIds |-> FALSE]
  /\ pending_update_available_contexts = [g \in GroupIds |-> NoContexts]
  /\ active_contexts = [g \in GroupIds |-> {}]
  /\ stream_conf = [g \in GroupIds |-> NoStreamConf]
  /\ group_snk_audio_locations_ =
       [g \in GroupIds |-> IF g = "g1" THEN {"FL", "FR"} ELSE {"FL"}]
  /\ group_src_audio_locations_ =
       [g \in GroupIds |->
          IF g = "g1" THEN microphones["d1"] \cup microphones["d2"]
          ELSE microphones["d3"]]
  /\ group_id_ = [d \in Devices |-> IF d = "d3" THEN "g2" ELSE "g1"]
  /\ gatt_link = [d \in Devices |-> FALSE]
  /\ conn_id_ = [d \in Devices |-> FALSE]
  /\ dev_active = [d \in Devices |-> FALSE]
  /\ snk_audio_locations_ =
       [d \in Devices |-> IF d = "d2" THEN {"FR"} ELSE {"FL"}]
  /\ src_audio_locations_ = microphones
  /\ active_group_id_ = kGroupUnknown
  /\ current_context_type_ = "MEDIA"
  /\ audio_sender_state_ = "IDLE"
  /\ audio_receiver_state_ = "IDLE"
  /\ current_source_codec_config = InvalidCodecConfig
  /\ current_sink_codec_config = InvalidCodecConfig
  /\ lc3_encoder_mem = FALSE
  /\ lc3_decoder_mem = FALSE
  /\ audio_source_instance_ = FALSE
  /\ audio_sink_instance_ = FALSE
  /\ af_source_acquired = FALSE
  /\ af_sink_acquired = FALSE
  /\ suspend_timeout_ = kGroupUnknown
  /\ leAudioDevices_ = Devices
  /\ cig_created_ = [g \in GroupIds |-> FALSE]
  /\ removing_device_ = [d \in Devices |-> FALSE]
  /\ connecting_actively_ = [d \in Devices |-> FALSE]
  /\ encrypted_ = [d \in Devices |-> FALSE]
  /\ known_service_handles_ = [d \in Devices |-> TRUE]
  /\ notify_connected_after_read_ = [d \in Devices |-> FALSE]
  /\ csis_member_ = [d \in Devices |-> FALSE]
  /\ dev_hdls = [d \in Devices |-> PacsCharacteristics \cup {"AseControlPoint"}]
  /\ ases_ = [d \in Devices |-> <<"SinkASE", "SourceASE">>]
  /\ audio_directions_ = [d \in Devices |-> {"Sink", "Source"}]
  /\ service_search = [d \in Devices |-> FALSE]
  /\ gatt_queue = [d \in Devices |-> <<>>]
  /\ connection_state = [d \in Devices |-> "DISCONNECTED"]
  /\ groups_module = [d \in Devices |-> IF d = "d3" THEN "g2" ELSE "g1"]
  /\ cached_channel_data_ = <<>>
  /\ cached_channel_timestamp_ = 0
  /\ cached_channel_is_left_ = Uninitialized
  /\ instance = TRUE
  /\ aborted = FALSE

\* d2 has no microphone
OneMicrophone == [d \in Devices |-> IF d = "d2" THEN {} ELSE {"FL"}]

Init == \E w \in Surroundings : Restored(w, OneMicrophone)

\* the stack's part of an open and of a close: the link comes up; the link,
\* the requests queued on it and a search under way are gone
LinkUp(s, d) == [s EXCEPT !.gatt_link[d] = TRUE]
LinkDown(s, d) ==
  [s EXCEPT !.gatt_link[d] = FALSE, !.gatt_queue[d] = <<>>,
            !.service_search[d] = FALSE]

\* inputs the handlers are driven with
StreamGroupIds == GroupIds \cup {UnregisteredGroupId}
ActiveGroupIds == GroupIds \cup {UnregisteredGroupId, kGroupUnknown}
StreamContexts == ContextTypes \cup {"RFU"}
\* what ChooseContextType can pick from the metadata of the framework
MetadataContexts == usages \cup {InvalidMetadata}
\* the values a device can notify: media is always on offer
AvailableContextValues(d) ==
  {value \in SUBSET supported[d] : "MEDIA" \in value}

\* the watchdog of a transition of g is running
WatchdogRuns(g) == IsInTransition(Cur, g) \/ IsConfiguring(Cur, g)

DoGroupStream ==
  \E g \in StreamGroupIds, context_type \in StreamContexts :
     /\ ~aborted
     /\ Commit(GroupStream(Cur, g, context_type))

DoGroupSuspend ==
  \E g \in StreamGroupIds :
     /\ ~aborted
     /\ Commit(GroupSuspend(Cur, g))

DoGroupStop ==
  \E g \in StreamGroupIds :
     /\ ~aborted
     /\ Commit(GroupStop(Cur, g))

DoGroupSetActive ==
  \E g \in ActiveGroupIds :
     /\ ~aborted
     /\ Commit(LeAudioClientGet(
                 Cur, GroupSetActive(Cur, g, "AudioSource" \in grants,
                                     "AudioSink" \in grants)))

DoOnAudioSinkResume ==
  /\ ~aborted /\ af_source_acquired
  /\ Commit(SinkReceiverOnAudioResume(Cur))

DoOnAudioSinkSuspend ==
  /\ ~aborted /\ af_source_acquired
  /\ Commit(SinkReceiverOnAudioSuspend(Cur))

DoOnAudioSourceResume ==
  /\ ~aborted /\ af_sink_acquired
  /\ Commit(SourceReceiverOnAudioResume(Cur))

DoOnAudioSourceSuspend ==
  /\ ~aborted /\ af_sink_acquired
  /\ Commit(SourceReceiverOnAudioSuspend(Cur))

DoOnAudioMetadataUpdate ==
  \E new_context \in MetadataContexts :
     /\ ~aborted /\ af_source_acquired
     /\ Commit(SinkReceiverOnAudioMetadataUpdate(Cur, new_context))

\* the alarm set by OnAudioSuspend fires: GroupStop of the group it carries
SuspendTimeoutFired(s) ==
  IF s.instance
  THEN GroupStop([s EXCEPT !.suspend_timeout_ = kGroupUnknown],
                 s.suspend_timeout_)
  ELSE [s EXCEPT !.suspend_timeout_ = kGroupUnknown]

SuspendTimeoutExpired ==
  /\ ~aborted
  /\ suspend_timeout_ # kGroupUnknown
  /\ Commit(SuspendTimeoutFired(Cur))

\* the watchdog of a group transition fires
TransitionTimeout ==
  \E g \in GroupIds, acl \in SUBSET {d \in Devices : gatt_link[d]} :
     /\ ~aborted
     /\ "no answer" \in faults
     /\ WatchdogRuns(g)
     /\ Commit(OnStateTransitionTimeout(Cur, g, acl))

\* an ASE state notification completes the next rung of a group
AseNotification ==
  \E g \in GroupIds, autonomous \in BOOLEAN :
     /\ ~aborted
     /\ WatchdogRuns(g)
     /\ GetFirstActiveDevice(Cur, g) # NoDevice
     /\ Commit(le_audio_gattc_callback(
                 Cur, ProcessGattNotifEvent(Cur, g, autonomous)))

\* an active member answers a control-point operation of a running transition
CtpNotification ==
  /\ ~aborted
  /\ \E d \in Devices :
        conn_id_[d] /\ dev_active[d] /\ WatchdogRuns(group_id_[d])
  /\ \E ntf \in CtpNotifications :
        Commit(le_audio_gattc_callback(
                 Cur, ControlPointNotificationHandler(Cur, ntf)))

AvailableContextsChanged ==
  \E d \in Devices :
     \E value \in AvailableContextValues(d) :
        /\ ~aborted
        /\ conn_id_[d]
        /\ Commit(le_audio_gattc_callback(
                    Cur, AvailableContextsNotification(Cur, d, value)))

GattConnected ==
  \E d \in in_range, garbage \in SUBSET ContextTypes,
     configure_ok \in BOOLEAN :
     /\ ~aborted
     /\ ~gatt_link[d]
     /\ Commit(le_audio_gattc_callback(
                 LinkUp(Cur, d),
                 OnGattConnected(LinkUp(Cur, d), d, "GATT_SUCCESS", "larger",
                                 "encrypted", garbage, configure_ok)))

GattDisconnected ==
  \E d \in Devices, local_host \in BOOLEAN :
     /\ ~aborted
     /\ gatt_link[d]
     /\ "link loss" \in faults
     /\ Commit(le_audio_gattc_callback(
                 LinkDown(Cur, d),
                 OnGattDisconnected(LinkDown(Cur, d), d, local_host)))

Next ==
  \/ DoGroupStream
  \/ DoGroupSuspend
  \/ DoGroupStop
  \/ DoGroupSetActive
  \/ DoOnAudioSinkResume
  \/ DoOnAudioSinkSuspend
  \/ DoOnAudioSourceResume
  \/ DoOnAudioSourceSuspend
  \/ DoOnAudioMetadataUpdate
  \/ SuspendTimeoutExpired
  \/ TransitionTimeout
  \/ AseNotification
  \/ CtpNotification
  \/ AvailableContextsChanged
  \/ GattConnected
  \/ GattDisconnected

Spec == Init /\ [][Next]_vars

\* the coordinator with the one control-point answer that makes it act: an
\* active member rejects an operation for its CIS mapping
CtpRejection ==
  /\ ~aborted
  /\ \E d \in Devices :
        conn_id_[d] /\ dev_active[d] /\ WatchdogRuns(group_id_[d])
  /\ Commit(le_audio_gattc_callback(
              Cur, ControlPointNotificationHandler(
                     Cur, <<[response_code |-> "InvalidConfigurationParameterValue",
                             reason |-> "InvalidAseCisMapping"]>>)))

CoordinatorNext ==
  \/ DoGroupStream
  \/ DoGroupSuspend
  \/ DoGroupStop
  \/ DoGroupSetActive
  \/ DoOnAudioSinkResume
  \/ DoOnAudioSinkSuspend
  \/ DoOnAudioSourceResume
  \/ DoOnAudioSourceSuspend
  \/ DoOnAudioMetadataUpdate
  \/ SuspendTimeoutExpired
  \/ TransitionTimeout
  \/ AseNotification
  \/ CtpRejection
  \/ AvailableContextsChanged
  \/ GattConnected
  \/ GattDisconnected

CoordinatorSpec == Init /\ [][CoordinatorNext]_vars

----------------------------------------------------------------------------
(* Discovery: the client from its construction, with one device in reach   *)
(* that is connected, discovered, grouped by the groups module and lost    *)

\* requests a connection's queue holds at most
MaxGattQueue == 8

Characteristic(uuid, ccc, subscribes) ==
  [uuid |-> uuid, ccc |-> ccc, subscribes |-> subscribes]

\* the characteristics of a peer that has them all; the CCC descriptor of
\* the source audio locations, an optional one, is absent
PacsOfPeer ==
  <<Characteristic("SinkPAC", TRUE, TRUE),
    Characteristic("SourcePAC", TRUE, TRUE),
    Characteristic("SinkAudioLocations", TRUE, TRUE),
    Characteristic("SourceAudioLocations", FALSE, TRUE),
    Characteristic("AvailableAudioContexts", TRUE, TRUE)>>

AscsOfPeer ==
  <<Characteristic("SinkASE", TRUE, TRUE),
    Characteristic("SourceASE", TRUE, TRUE),
    Characteristic("AseControlPoint", TRUE, TRUE)>>

\* the characteristics with the CCC descriptor of one of them absent, or
\* with the registration for its notifications refused
WithoutCcc(characteristics, uuid) ==
  [i \in DOMAIN characteristics |->
     IF characteristics[i].uuid = uuid
     THEN [characteristics[i] EXCEPT !.ccc = FALSE]
     ELSE characteristics[i]]

Unsubscribed(characteristics, uuid) ==
  [i \in DOMAIN characteristics |->
     IF characteristics[i].uuid = uuid
     THEN [characteristics[i] EXCEPT !.subscribes = FALSE]
     ELSE characteristics[i]]

PeerDatabase(pacs, ascs, csis) ==
  [pac_svc |-> TRUE, ase_svc |-> TRUE, csis |-> csis, pacs |-> pacs,
   ascs |-> ascs]

\* the databases the peers of the model can have
PeerDatabases ==
  {PeerDatabase(PacsOfPeer, AscsOfPeer, csis) : csis \in BOOLEAN}
  \cup {PeerDatabase(WithoutCcc(PacsOfPeer, uuid), AscsOfPeer, FALSE) :
          uuid \in {"SourcePAC", "SinkAudioLocations", "AvailableAudioContexts"}}
  \cup {PeerDatabase(PacsOfPeer, WithoutCcc(AscsOfPeer, uuid), FALSE) :
          uuid \in {"SourceASE", "AseControlPoint"}}
  \cup {PeerDatabase(Unsubscribed(PacsOfPeer, "SinkAudioLocations"),
                     AscsOfPeer, FALSE),
        [PeerDatabase(PacsOfPeer, <<>>, FALSE) EXCEPT !.ase_svc = FALSE]}

\* what reading the empty optional yields does not reach the state
GarbageValues == {{}, ContextTypes}

\* the values a read or a notification of the characteristic can carry
ValuesOf(d, hdl) ==
  CASE hdl \in {"SinkPAC", "SourcePAC"} -> BOOLEAN
    [] hdl \in {"SinkAudioLocations", "SourceAudioLocations"} ->
         AudioLocationValues
    [] hdl = "AvailableAudioContexts" -> AvailableContextValues(d)
    [] hdl = "AseControlPoint" -> {<<>>}
    [] OTHER -> {"ase state"}

Bounded(s) == \A d \in Devices : Len(s.gatt_queue[d]) <= MaxGattQueue

\* the client after LeAudioClient::Initialize: no device, no group
Constructed ==
  /\ supported = MediaOnly
  /\ usages = {"MEDIA"}
  /\ grants = {"AudioSource", "AudioSink"}
  /\ faults = {}
  /\ aseGroups_ = {}
  /\ group_devices = [g \in GroupIds |-> <<>>]
  /\ group_state = [g \in GroupIds |-> "IDLE"]
  /\ target_state = [g \in GroupIds |-> "IDLE"]
  /\ pending_configuration = [g \in GroupIds |-> FALSE]
  /\ pending_update_available_contexts = [g \in GroupIds |-> NoContexts]
  /\ active_contexts = [g \in GroupIds |-> {}]
  /\ stream_conf = [g \in GroupIds |-> NoStreamConf]
  /\ group_snk_audio_locations_ = [g \in GroupIds |-> {}]
  /\ group_src_audio_locations_ = [g \in GroupIds |-> {}]
  /\ cig_created_ = [g \in GroupIds |-> FALSE]
  /\ group_id_ = [d \in Devices |-> kGroupUnknown]
  /\ gatt_link = [d \in Devices |-> FALSE]
  /\ conn_id_ = [d \in Devices |-> FALSE]
  /\ dev_active = [d \in Devices |-> FALSE]
  /\ removing_device_ = [d \in Devices |-> FALSE]
  /\ connecting_actively_ = [d \in Devices |-> FALSE]
  /\ encrypted_ = [d \in Devices |-> FALSE]
  /\ notify_connected_after_read_ = [d \in Devices |-> FALSE]
  /\ csis_member_ = [d \in Devices |-> FALSE]
  /\ service_search = [d \in Devices |-> FALSE]
  /\ gatt_queue = [d \in Devices |-> <<>>]
  /\ connection_state = [d \in Devices |-> "DISCONNECTED"]
  /\ groups_module = [d \in Devices |-> kGroupUnknown]
  /\ active_group_id_ = kGroupUnknown
  /\ current_context_type_ = "MEDIA"
  /\ audio_sender_state_ = "IDLE"
  /\ audio_receiver_state_ = "IDLE"
  /\ current_source_codec_config = InvalidCodecConfig
  /\ current_sink_codec_config = InvalidCodecConfig
  /\ lc3_encoder_mem = FALSE
  /\ lc3_decoder_mem = FALSE
  /\ audio_source_instance_ = FALSE
  /\ audio_sink_instance_ = FALSE
  /\ af_source_acquired = FALSE
  /\ af_sink_acquired = FALSE
  /\ suspend_timeout_ = kGroupUnknown
  /\ cached_channel_data_ = <<>>
  /\ cached_channel_timestamp_ = 0
  /\ cached_channel_is_left_ = Uninitialized
  /\ instance = TRUE
  /\ aborted = FALSE

DiscoveryInit ==
  /\ Constructed
  /\ in_range = {"d1"}
  /\ leAudioDevices_ = {}
  /\ avail_contexts = [d \in Devices |-> {}]
  /\ snk_audio_locations_ = [d \in Devices |-> {}]
  /\ src_audio_locations_ = [d \in Devices |-> {}]
  /\ known_service_handles_ = [d \in Devices |-> FALSE]
  /\ dev_hdls = [d \in Devices |-> {}]
  /\ ases_ = [d \in Devices |-> <<>>]
  /\ audio_directions_ = [d \in Devices |-> {}]

\* a step of the client that keeps the queues within the bound
Step(s) == ~aborted /\ Bounded(s) /\ Commit(s)

\* a device is put into a group while at most this many of its reads wait
\* for their responses
MaxPendingReads == 1

\* the devices the client or the user can name: those in reach and those
\* the client has an entry for
Known == in_range \cup leAudioDevices_

DoConnect ==
  \E d \in in_range : Step(Connect(Cur, d))

DoAddFromStorage ==
  \E d \in Known, autoconnect \in BOOLEAN, garbage \in GarbageValues :
     Step(AddFromStorage(Cur, d, autoconnect, garbage))

DoDisconnect ==
  \E d \in in_range : Step(Disconnect(Cur, d))

DoRemoveDevice ==
  \E d \in Known : Step(RemoveDevice(Cur, d))

DoGroupAddNode ==
  \E d \in Known, g \in GroupIds \cup {kGroupUnknown},
     garbage \in GarbageValues :
     /\ Len(gatt_queue[d]) <= MaxPendingReads
     /\ Step(GroupAddNode(Cur, g, d, garbage))

DoGroupRemoveNode ==
  \E d \in Known, g \in GroupIds : Step(GroupRemoveNode(Cur, g, d))

DoGroupDestroy ==
  \E g \in GroupIds : Step(GroupDestroy(Cur, g))

\* another client of the groups module, the set coordinator, puts a device
\* into a CAP group or takes it out
GroupsModuleAdds ==
  \E d \in Known, g \in GroupIds, garbage \in GarbageValues :
     /\ groups_module[d] = kGroupUnknown
     /\ Len(gatt_queue[d]) <= MaxPendingReads
     /\ Step(DeviceGroupsAddDevice(Cur, d, g, garbage))

GroupsModuleRemoves ==
  \E d \in Known :
     /\ groups_module[d] # kGroupUnknown
     /\ Step(DeviceGroupsRemoveDevice(Cur, d, groups_module[d]))

\* BTA_GATTC_OPEN_EVT for a device the client asked to be connected to
GattOpened ==
  \E d \in in_range \cap leAudioDevices_, mtu \in MtuValues,
     link \in {"pending", "encrypted", "bonded"},
     garbage \in GarbageValues :
     /\ ~gatt_link[d]
     /\ Step(le_audio_gattc_callback(
               LinkUp(Cur, d),
               OnGattConnected(LinkUp(Cur, d), d, "GATT_SUCCESS", mtu, link,
                               garbage, FALSE)))

GattOpenFailed ==
  \E d \in in_range \cap leAudioDevices_ :
     /\ ~gatt_link[d]
     /\ connecting_actively_[d]
     /\ Step(le_audio_gattc_callback(
               Cur, OnGattConnected(Cur, d, "GATT_ERROR", "larger", "none", {},
                                    FALSE)))

\* BTA_GATTC_ENC_CMPL_CB_EVT and the callback of BTM_SetEncryption
EncryptionComplete ==
  \E d \in Devices, status \in {"BTM_SUCCESS", "BTM_ERR_PROCESSING"},
     garbage \in GarbageValues :
     /\ gatt_link[d]
     /\ conn_id_[d]
     /\ ~encrypted_[d]
     /\ Step(le_audio_gattc_callback(
               Cur, OnEncryptionComplete(Cur, d, status, garbage, FALSE)))

\* BTA_GATTC_SEARCH_CMPL_EVT
ServiceSearchComplete ==
  \E d \in Devices, db \in PeerDatabases, garbage \in GarbageValues :
     /\ service_search[d]
     /\ Step(le_audio_gattc_callback(
               Cur, OnServiceSearchComplete(Cur, d, "GATT_SUCCESS", db,
                                            garbage)))

ServiceSearchFailed ==
  \E d \in Devices :
     /\ service_search[d]
     /\ Step(le_audio_gattc_callback(
               Cur, OnServiceSearchComplete(Cur, d, "GATT_ERROR",
                                            PeerDatabase(<<>>, <<>>, FALSE),
                                            {})))

\* BTA_GATTC_SRVC_CHG_EVT and BTA_GATTC_SRVC_DISC_DONE_EVT
ServiceChanged ==
  \E d \in Devices :
     /\ gatt_link[d] /\ conn_id_[d] /\ known_service_handles_[d]
     /\ Step(le_audio_gattc_callback(Cur, OnServiceChangeEvent(Cur, d)))

ServiceDiscoveryDone ==
  \E d \in Devices :
     /\ gatt_link[d] /\ conn_id_[d] /\ encrypted_[d]
     /\ ~known_service_handles_[d]
     /\ Step(le_audio_gattc_callback(Cur, OnGattServiceDiscoveryDone(Cur, d)))

\* the request at the head of a connection's queue completes:
\* BTA_GATTC_CFG_MTU_EVT, which the client passes over, or a read response
GattRequestCompleted ==
  \E d \in Devices :
     /\ gatt_queue[d] # <<>>
     /\ LET rsp == Head(gatt_queue[d])
            s == [Cur EXCEPT !.gatt_queue[d] = Tail(@)]
        IN IF rsp.op = "ConfigureMtu" THEN Step(s)
           ELSE \E status \in {"GATT_SUCCESS", "GATT_ERROR"},
                   value \in ValuesOf(d, rsp.hdl),
                   garbage \in GarbageValues :
                   Step(OnGattReadRspStatic(s, d, rsp, status, value, garbage,
                                            FALSE))

\* BTA_GATTC_CLOSE_EVT
GattClosed ==
  \E d \in Devices, local_host \in BOOLEAN :
     /\ gatt_link[d]
     /\ Step(le_audio_gattc_callback(
               LinkDown(Cur, d),
               OnGattDisconnected(LinkDown(Cur, d), d, local_host)))

\* the ISO manager reports on the CIG of a group
CigCreated ==
  \E g \in aseGroups_, status \in {"HCI_SUCCESS", "HCI_ERR_ILLEGAL_COMMAND"} :
     /\ ~cig_created_[g]
     /\ IsAnyDeviceConnected(Cur, g)
     /\ Step(OnCigEvent(Cur, "kIsoEventCigOnCreateCmpl", g, status))

CigRemoved ==
  \E g \in aseGroups_ :
     /\ cig_created_[g]
     /\ Step(OnCigEvent(Cur, "kIsoEventCigOnRemoveCmpl", g, "HCI_SUCCESS"))

DiscoveryNext ==
  \/ DoConnect
  \/ DoDisconnect
  \/ GroupsModuleAdds
  \/ GattOpened
  \/ GattOpenFailed
  \/ EncryptionComplete
  \/ ServiceSearchComplete
  \/ ServiceSearchFailed
  \/ ServiceChanged
  \/ ServiceDiscoveryDone
  \/ GattRequestCompleted
  \/ GattClosed

DiscoverySpec == DiscoveryInit /\ [][DiscoveryNext]_vars

----------------------------------------------------------------------------
(* Groups: two devices that were discovered in an earlier connection are   *)
(* grouped, regrouped, removed and connected again                         *)

\* the client after the devices d1 and d2 were connected and discovered,
\* taken out of the groups they were put in, and disconnected
GroupsInit ==
  /\ Constructed
  /\ in_range = {"d1"}
  /\ leAudioDevices_ = {"d1", "d2"}
  /\ avail_contexts = [d \in Devices |-> IF d = "d3" THEN {} ELSE {"MEDIA"}]
  /\ snk_audio_locations_ =
       [d \in Devices |-> CASE d = "d1" -> {"FL"} [] d = "d2" -> {"FR"}
                             [] OTHER -> {}]
  /\ src_audio_locations_ =
       [d \in Devices |-> IF d = "d1" THEN {"FL"} ELSE {}]
  /\ known_service_handles_ = [d \in Devices |-> d # "d3"]
  /\ dev_hdls = [d \in Devices |->
                   IF d = "d3" THEN {}
                   ELSE PacsCharacteristics \cup {"AseControlPoint"}]
  /\ ases_ = [d \in Devices |->
                IF d = "d3" THEN <<>> ELSE <<"SinkASE", "SourceASE">>]
  /\ audio_directions_ =
       [d \in Devices |-> IF d = "d3" THEN {} ELSE {"Sink", "Source"}]

\* BTA_GATTC_OPEN_EVT on a link that is encrypted already
GattReopened ==
  \E d \in in_range \cap leAudioDevices_, garbage \in GarbageValues :
     /\ ~gatt_link[d]
     /\ Step(le_audio_gattc_callback(
               LinkUp(Cur, d),
               OnGattConnected(LinkUp(Cur, d), d, "GATT_SUCCESS", "larger",
                               "encrypted", garbage, FALSE)))

GroupsNext ==
  \/ DoConnect
  \/ DoAddFromStorage
  \/ DoDisconnect
  \/ DoRemoveDevice
  \/ DoGroupAddNode
  \/ DoGroupRemoveNode
  \/ DoGroupDestroy
  \/ GroupsModuleAdds
  \/ GroupsModuleRemoves
  \/ GattReopened
  \/ GattRequestCompleted
  \/ GattClosed
  \/ CigCreated
  \/ CigRemoved

GroupsSpec == GroupsInit /\ [][GroupsNext]_vars

----------------------------------------------------------------------------
(* Activation: the devices of the groups specification are grouped,        *)
(* connected, and their groups are made active and taken apart             *)

ActivationNext ==
  \/ DoGroupSetActive
  \/ DoRemoveDevice
  \/ DoGroupAddNode
  \/ DoGroupRemoveNode
  \/ DoGroupDestroy
  \/ GattReopened
  \/ GattRequestCompleted
  \/ GattClosed
  \/ CigCreated
  \/ CigRemoved

ActivationSpec == GroupsInit /\ [][ActivationNext]_vars

----------------------------------------------------------------------------
(* Uplink: the pair of g1 with a microphone each, left on d1 and right on  *)
(* d2, in a voice call; the CISes deliver microphone frames                *)

MaxTimestamp == 2
Timestamps == 0..MaxTimestamp
PcmFrames == {<<1>>, <<2>>}

TwoMicrophones ==
  [d \in Devices |-> IF d = "d2" THEN {"FR"} ELSE {"FL"}]

\* both of the pair in reach, or d1 alone
CallSurroundings ==
  {[in_range |-> reach,
    supported |-> [d \in Devices |-> {"MEDIA", "CONVERSATIONAL"}],
    usages |-> {"MEDIA", "CONVERSATIONAL"},
    grants |-> {"AudioSource", "AudioSink"},
    faults |-> {}] : reach \in {{"d1", "d2"}, {"d1"}}}

UplinkInit == \E w \in CallSurroundings : Restored(w, TwoMicrophones)

\* an SDU arrives on the CIS of a member; the decoder may fail on it
CisDataAvailable ==
  \E cis_conn_hdl \in Devices, timestamp \in Timestamps,
     pcm_data_decoded \in PcmFrames, err \in {0, -1}, garbage \in {0, 1} :
     /\ ~aborted
     /\ \E g \in GroupIds : cis_conn_hdl \in SeqToSet(SourceStreams(Cur, g))
     /\ Commit(OnCisEvent(Cur, cis_conn_hdl, timestamp, pcm_data_decoded,
                          err, garbage))

UplinkNext ==
  \/ DoGroupSetActive
  \/ DoOnAudioSinkResume
  \/ DoOnAudioSourceResume
  \/ DoOnAudioSourceSuspend
  \/ DoOnAudioMetadataUpdate
  \/ SuspendTimeoutExpired
  \/ AseNotification
  \/ GattConnected
  \/ CisDataAvailable

UplinkSpec == UplinkInit /\ [][UplinkNext]_vars

----------------------------------------------------------------------------
(* Cleanup: the client is cleaned up at any moment of a session, and the   *)
(* stack, the controller and the audio framework go on calling             *)

DoCleanup ==
  /\ ~aborted
  /\ instance
  /\ Commit(LeAudioClientCleanup(Cur))

CleanupNext ==
  \/ DoCleanup
  \/ DoGroupSetActive
  \/ DoOnAudioSinkResume
  \/ DoOnAudioSinkSuspend
  \/ DoOnAudioSourceResume
  \/ DoOnAudioSourceSuspend
  \/ DoOnAudioMetadataUpdate
  \/ SuspendTimeoutExpired
  \/ TransitionTimeout
  \/ AseNotification
  \/ GattConnected
  \/ GattDisconnected

CleanupSpec == Init /\ [][CleanupNext]_vars

----------------------------------------------------------------------------
(* Properties.  The handlers are functions of the object's state, so a     *)
(* property of a handler is stated on its result from the current state,   *)
(* at every reachable state in which the handler can be called.            *)

GroupsInTransition == {g \in aseGroups_ : group_state[g] # target_state[g]}

\* C1: at every point of every interleaving of API calls, audio callbacks
\* and timer expiries, at most one group of the registry has a current
\* state different from its target state.
C1_AtMostOneGroupInTransition == Cardinality(GroupsInTransition) <= 1

\* C2: GroupStream returns false, calls StartStream on no group and leaves
\* the current and the target state of every group as they were when the
\* group id is not in the registry, when no member of the group is
\* connected, or when some group of the registry is in transition.
C2_GroupStreamRejected ==
  \A g \in StreamGroupIds, context_type \in StreamContexts :
     (/\ ~aborted
      /\ \/ g \notin aseGroups_
         \/ \A d \in SeqToSet(group_devices[g]) : ~conn_id_[d]
         \/ GroupsInTransition # {})
     => LET s == GroupStream(Cur, g, context_type)
        IN /\ s.ret = FALSE
           /\ Calls(s.out, "StartStream") = {}
           /\ s.group_state = group_state
           /\ s.target_state = target_state

\* a group with a connected member that is at rest and has a context to
\* stream, asked to stream while the other group is in transition
C2_RejectedForOtherGroup ==
  \E g \in aseGroups_ :
     /\ ~aborted
     /\ \E d \in SeqToSet(group_devices[g]) : conn_id_[d]
     /\ group_state[g] = target_state[g]
     /\ group_state[g] # "STREAMING"
     /\ "MEDIA" \in active_contexts[g]
     /\ GroupsInTransition # {}
     /\ GroupStream(Cur, g, "MEDIA").ret = FALSE

\* the transition watchdog of g can fire with the ACL handles of acl known
TimeoutCanFire(g, acl) ==
  /\ ~aborted
  /\ "no answer" \in faults
  /\ WatchdogRuns(g)
  /\ acl \subseteq {d \in Devices : gatt_link[d]}

ActiveMembers(g) == {d \in SeqToSet(group_devices[g]) : dev_active[d]}

\* the devices a call of that name was made for
CalledFor(o, name) == {o[i][2] : i \in Calls(o, name)}

\* the timeout handler has set the target of g to IDLE and cancelled the
\* streaming request on both directions
TimeoutResetsSession(s, g) ==
  /\ s.target_state[g] = "IDLE"
  /\ s.audio_sender_state_ = "IDLE"
  /\ s.audio_receiver_state_ = "IDLE"
  /\ audio_sender_state_ # "IDLE" =>
       <<"CancelStreamingRequest", "AudioSource">> \in SeqToSet(s.out)
  /\ audio_receiver_state_ # "IDLE" =>
       <<"CancelStreamingRequest", "AudioSink">> \in SeqToSet(s.out)

C4_ExpiryStopsActiveGroup ==
  (~aborted /\ suspend_timeout_ # kGroupUnknown)
  => CalledFor(SuspendTimeoutFired(Cur).out, "StopStream") \subseteq {active_group_id_}

\* C5: a sink or source resume that arrives while the suspend timer of the
\* active group is armed cancels the timer, whatever the sender and
\* receiver states are.
C5_ResumeCancelsTimer ==
  (/\ ~aborted
   /\ suspend_timeout_ # kGroupUnknown
   /\ suspend_timeout_ = active_group_id_)
  => /\ af_source_acquired =>
          OnAudioSinkResume(Cur).suspend_timeout_ = kGroupUnknown
     /\ af_sink_acquired =>
          OnAudioSourceResume(Cur).suspend_timeout_ = kGroupUnknown

\* the calls that tear the stream down or free the LC3 codec memory
TearDownCalls(o) ==
  Calls(o, "GroupStop") \cup Calls(o, "StopStream") \cup Calls(o, "free")

\* the active group is streaming and at rest
ActiveGroupStreams ==
  /\ ~aborted
  /\ active_group_id_ \in aseGroups_
  /\ group_state[active_group_id_] = "STREAMING"
  /\ target_state[active_group_id_] = "STREAMING"

\* the suspend s1 and the resume s2 after it leave the stream and the codec
\* memory alone, and no suspend timer is left to expire
ResumedUntouched(s1, s2) ==
  /\ TearDownCalls(s1.out) = {}
  /\ TearDownCalls(s2.out) = {}
  /\ s2.suspend_timeout_ = kGroupUnknown
  /\ s2.lc3_encoder_mem = lc3_encoder_mem
  /\ s2.lc3_decoder_mem = lc3_decoder_mem
  /\ s2.group_state = group_state
  /\ s2.target_state = target_state

\* C6: for a streaming active group, the suspend of a started direction
\* followed by the resume of that direction before the suspend timer expires
\* calls neither GroupStop nor StopStream, frees no LC3 encoder or decoder
\* memory and leaves no suspend timer armed.
C6_SuspendResumeKeepsStream ==
  /\ (ActiveGroupStreams /\ af_source_acquired /\ audio_sender_state_ = "STARTED")
     => LET s1 == OnAudioSinkSuspend(Cur)
            s2 == OnAudioSinkResume(s1)
        IN ResumedUntouched(s1, s2)
  /\ (ActiveGroupStreams /\ af_sink_acquired /\ audio_receiver_state_ = "STARTED")
     => LET s1 == OnAudioSourceSuspend(Cur)
            s2 == OnAudioSourceResume(s1)
        IN ResumedUntouched(s1, s2)

\* the ASE notifications of the peers that complete the transition of g
RECURSIVE CompleteTransition(_, _, _)
CompleteTransition(s, g, fuel) ==
  IF fuel = 0 \/ s.aborted \/ s.group_state[g] = s.target_state[g] THEN s
  ELSE CompleteTransition(ProcessGattNotifEvent(s, g, FALSE), g, fuel - 1)

\* the session is at rest on an idle active group
SessionAtRest ==
  /\ ~aborted
  /\ active_group_id_ \in aseGroups_
  /\ group_state[active_group_id_] = "IDLE"
  /\ target_state[active_group_id_] = "IDLE"
  /\ ~pending_configuration[active_group_id_]
  /\ audio_sender_state_ = "IDLE"
  /\ audio_receiver_state_ = "IDLE"
  /\ suspend_timeout_ = kGroupUnknown
  /\ af_source_acquired

\* C7: a round trip without reconfiguration (sink resume, the group reaches
\* STREAMING, sink suspend, the suspend timer expires, the stop is reported
\* as RELEASING and then IDLE) ends with the LC3 encoder and decoder memory
\* allocated exactly as it was at the start.
C7_RoundTripKeepsCodecMemory ==
  SessionAtRest
  => LET g == active_group_id_
         resumed == OnAudioSinkResume(Cur)
         streaming == CompleteTransition(resumed, g, Cardinality(AseStates))
         suspended == OnAudioSinkSuspend(streaming)
         expired == SuspendTimeoutFired(suspended)
         idle == CompleteTransition(expired, g, Cardinality(AseStates))
     IN (/\ resumed.audio_sender_state_ = "READY_TO_START"
         /\ streaming.group_state[g] = "STREAMING"
         /\ streaming.audio_sender_state_ = "STARTED"
         /\ suspended.suspend_timeout_ = g
         /\ expired.audio_sender_state_ = "RELEASING"
         /\ idle.group_state[g] = "IDLE"
         /\ ~idle.aborted)
        => /\ idle.lc3_encoder_mem = lc3_encoder_mem
           /\ idle.lc3_decoder_mem = lc3_decoder_mem

\* the bits in which two context sets differ
ChangedContexts(a, b) == (a \ b) \cup (b \ a)

\* C8: a change of a member's available contexts that arrives while its
\* group is in transition or STREAMING is only stashed in the group: the
\* active-context bitmap of every group stays as it was and no OnAudioConf
\* is sent.
C8_ContextChangeIsStashed ==
  \A d \in Devices :
     \A value \in AvailableContextValues(d) :
        (/\ ~aborted
         /\ conn_id_[d]
         /\ group_id_[d] \in aseGroups_
         /\ value # avail_contexts[d]
         /\ \/ group_state[group_id_[d]] # target_state[group_id_[d]]
            \/ group_state[group_id_[d]] = "STREAMING")
        => LET s == AvailableContextsNotification(Cur, d, value)
           IN /\ s.pending_update_available_contexts[group_id_[d]] =
                   ChangedContexts(avail_contexts[d], value)
              /\ s.active_contexts = active_contexts
              /\ Calls(s.out, "OnAudioConf") = {}
              /\ s.avail_contexts[d] = value
              /\ s.group_state = group_state
              /\ s.target_state = target_state

\* a change is stashed in a group that streams and is not in transition
C8_StashedWhileStreaming ==
  \E g \in aseGroups_ :
     /\ ~aborted
     /\ pending_update_available_contexts[g] # NoContexts
     /\ group_state[g] = "STREAMING"
     /\ target_state[g] = "STREAMING"
     /\ \E d \in SeqToSet(group_devices[g]) :
           /\ conn_id_[d]
           /\ avail_contexts[d] # supported[d]
           /\ active_contexts[g] = supported[d]

\* C9: a stashed change of available contexts that alters the bitmap is
\* applied when the group next reaches IDLE: exactly one OnAudioConf with
\* the new active contexts is sent and the stash is cleared, whether or not
\* the stop was made for a pending reconfiguration.
C9_StashAppliedAtIdle ==
  \A g \in GroupIds :
     (/\ ~aborted
      /\ pending_update_available_contexts[g] # NoContexts
      /\ UpdateActiveContextsMap(Cur, g, pending_update_available_contexts[g]).ret
           # NoContexts
      /\ group_state[g] = "RELEASING"
      /\ target_state[g] = "IDLE"
      /\ GetFirstActiveDevice(Cur, g) # NoDevice)
     => LET s == ProcessGattNotifEvent(Cur, g, FALSE)
        IN /\ s.group_state[g] = "IDLE"
           /\ Cardinality(Calls(s.out, "OnAudioConf")) = 1
           /\ \A i \in Calls(s.out, "OnAudioConf") :
                 s.out[i] = <<"OnAudioConf", g, s.active_contexts[g]>>
           /\ s.active_contexts[g] # active_contexts[g]
           /\ s.pending_update_available_contexts[g] = NoContexts

\* the notification has an entry with response code
\* InvalidConfigurationParameterValue and reason InvalidAseCisMapping
HasInvalidAseCisMapping(ntf) ==
  \E i \in DOMAIN ntf :
     /\ ntf[i].response_code = "InvalidConfigurationParameterValue"
     /\ ntf[i].reason = "InvalidAseCisMapping"

\* C10: a control-point notification cancels the streaming request (sender
\* and receiver end IDLE, each direction that was not IDLE is told) exactly
\* when it has an entry with InvalidConfigurationParameterValue and
\* InvalidAseCisMapping; any other notification changes nothing, and no
\* notification changes the state of a group.
C10_CtpCancelsExactlyOnInvalidAseCisMapping ==
  \A ntf \in CtpNotifications :
     ~aborted
     => LET s == ControlPointNotificationHandler(Cur, ntf)
        IN /\ IF HasInvalidAseCisMapping(ntf)
              THEN /\ s.audio_sender_state_ = "IDLE"
                   /\ s.audio_receiver_state_ = "IDLE"
                   /\ SeqToSet(s.out) =
                        {<<"CancelStreamingRequest", "AudioSource">> :
                            x \in {audio_sender_state_} \ {"IDLE"}}
                        \cup {<<"CancelStreamingRequest", "AudioSink">> :
                                 x \in {audio_receiver_state_} \ {"IDLE"}}
              ELSE s = Cur
           /\ [s EXCEPT !.audio_sender_state_ = audio_sender_state_,
                        !.audio_receiver_state_ = audio_receiver_state_,
                        !.out = <<>>] = Cur

\* a member answers while the sender waits for the stream of its group
C10_NotificationWhileRequestPending ==
  /\ ~aborted
  /\ audio_sender_state_ = "READY_TO_START"
  /\ \E d \in Devices :
        conn_id_[d] /\ dev_active[d] /\ WatchdogRuns(group_id_[d])
  /\ \E ntf \in CtpNotifications :
        /\ Len(ntf) = MaxCtpEntries
        /\ HasInvalidAseCisMapping(ntf)
        /\ ControlPointNotificationHandler(Cur, ntf).audio_sender_state_ = "IDLE"
  /\ \E ntf \in CtpNotifications :
        /\ Len(ntf) = MaxCtpEntries
        /\ \E i \in DOMAIN ntf :
              ntf[i].response_code = "InvalidConfigurationParameterValue"
        /\ ControlPointNotificationHandler(Cur, ntf) = Cur

\* the coordinator's state, without what the call returned and emitted
StateOf(s) == [s EXCEPT !.ret = FALSE, !.out = <<>>]

\* C11: delivering the same control-point notification twice in a row
\* leaves the coordinator in the state one delivery leaves it in, and the
\* second delivery sends no cancel to the audio framework.
C11_CtpReplayIsIdempotent ==
  LET cur == Cur
  IN \A ntf \in CtpNotifications :
        ~aborted
        => LET once == StateOf(ControlPointNotificationHandler(cur, ntf))
               twice == ControlPointNotificationHandler(once, ntf)
           IN /\ StateOf(twice) = once
              /\ twice.out = <<>>

\* a cancelling notification is replayed while both directions wait
C11_ReplayWhileBothDirectionsPending ==
  /\ ~aborted
  /\ audio_sender_state_ # "IDLE"
  /\ audio_receiver_state_ # "IDLE"
  /\ \E d \in Devices :
        conn_id_[d] /\ dev_active[d] /\ WatchdogRuns(group_id_[d])
  /\ \E ntf \in CtpNotifications :
        /\ HasInvalidAseCisMapping(ntf)
        /\ Len(ControlPointNotificationHandler(Cur, ntf).out) = 2
        /\ ControlPointNotificationHandler(
             StateOf(ControlPointNotificationHandler(Cur, ntf)), ntf).out = <<>>

\* GroupSetActive(g) gets as far as an Acquire() that the framework refuses
AcquireFails(s, g, source_ok, sink_ok) ==
  /\ g # kGroupUnknown
  /\ FindById(s, g)
  /\ s.active_group_id_ # g
  /\ \/ ~s.audio_source_instance_ /\ ~source_ok
     \/ ~s.audio_sink_instance_ /\ ~sink_ok

\* C20: when acquiring the audio source or the audio sink fails inside
\* GroupSetActive(g), the active group keeps its value and no
\* OnGroupStatus(g, ACTIVE) is emitted.
C20_FailedAcquireRejectsSetActive ==
  \A g \in GroupIds, source_ok \in BOOLEAN, sink_ok \in BOOLEAN :
     (~aborted /\ AcquireFails(Cur, g, source_ok, sink_ok))
     => LET s1 == GroupSetActive(Cur, g, source_ok, sink_ok)
        IN /\ s1.active_group_id_ = active_group_id_
           /\ Calls(s1.out, "OnGroupStatus") = {}

\* the sink was refused after the source had been acquired, and the same
\* request meets the refusal again
C20_SinkRefusedAfterSourceAcquired ==
  /\ ~aborted
  /\ "AudioSink" \notin grants
  /\ audio_source_instance_
  /\ ~audio_sink_instance_
  /\ active_group_id_ = kGroupUnknown
  /\ \E g \in GroupIds :
        /\ AcquireFails(Cur, g, TRUE, FALSE)
        /\ \E d \in Devices : group_id_[d] = g /\ conn_id_[d]

----------------------------------------------------------------------------
(* Group membership                                                        *)

Members(s, g) == {s.group_devices[g][i] : i \in DOMAIN s.group_devices[g]}

GroupsOf(s, d) == {g \in s.aseGroups_ : d \in Members(s, g)}

\* C12: whatever sequence of membership operations has run, every device is
\* in the member list of at most one registered group, and adding a device
\* to a group leaves it in the member list of no other group.
C12_DeviceInAtMostOneGroup ==
  ~aborted
  => /\ \A d \in Devices : Cardinality(GroupsOf(Cur, d)) <= 1
     /\ \A d \in Known, g \in GroupIds, garbage \in GarbageValues :
          LET s1 == GroupAddNode(Cur, g, d, garbage)
          IN (~s1.aborted /\ d \in Members(s1, g))
             => GroupsOf(s1, d) = {g}

\* a device that is a member of one group is about to be moved into the other
C12_MemberMovesToOtherGroup ==
  /\ ~aborted
  /\ \E d \in Known, g \in GroupIds, old \in GroupIds :
       /\ g # old
       /\ GroupsOf(Cur, d) = {old}
       /\ Len(group_devices[old]) = 2
       /\ conn_id_[d]
       /\ GroupsOf(GroupAddNode(Cur, g, d, {}), d) = {g}


\* C13: in every reachable state the group id of each device is Unknown or
\* the id of a group that is in the registry.
C13_GroupIdIsUnknownOrRegistered ==
  ~aborted
  => \A d \in Devices : group_id_[d] \in {kGroupUnknown} \cup aseGroups_

\* the last member of a group leaves it: the group goes and the device
\* keeps no id, while the other group keeps its member
C13_LastMemberLeavesAndGroupGoes ==
  /\ ~aborted
  /\ \E d \in Known, g \in aseGroups_ :
       LET s1 == GroupRemoveNode(Cur, g, d)
       IN /\ group_devices[g] = <<d>>
          /\ \E other \in aseGroups_ \ {g} : group_devices[other] # <<>>
          /\ g \notin s1.aseGroups_
          /\ s1.group_id_[d] = kGroupUnknown

NoDuplicates(seq) == \A i, j \in DOMAIN seq : seq[i] = seq[j] => i = j

\* C14: in every reachable state no registered group lists a device twice,
\* and a registered group without members has its CIG created.
C14_NoDuplicatesNoEmptyGroupWithoutCig ==
  ~aborted
  => \A g \in aseGroups_ :
        /\ NoDuplicates(group_devices[g])
        /\ group_devices[g] = <<>> => cig_created_[g]

\* an empty group that is kept for its CIG is about to go with the CIG, while
\* the other group has two members
C14_EmptyGroupGoesWithItsCig ==
  /\ ~aborted
  /\ \E g \in aseGroups_ :
       /\ group_devices[g] = <<>>
       /\ cig_created_[g]
       /\ \E other \in aseGroups_ : Len(group_devices[other]) = 2
       /\ g \notin IsoCigEventsCb(Cur, "kIsoEventCigOnRemoveCmpl", g,
                                  "HCI_SUCCESS").aseGroups_

\* a step takes the group out of the registry
GroupRemoved(g) == g \in aseGroups_ /\ g \notin aseGroups_'

\* C15: a step that takes a group out of the registry leaves it without
\* members and without a CIG, and a group whose last member leaves while its
\* CIG is created stays in the registry, with the CIG, after the removal.
C15_GroupRemovedOnlyEmptyAndWithoutCig ==
  [][~aborted
     => \A g \in GroupIds :
          /\ GroupRemoved(g)
             => group_devices'[g] = <<>> /\ ~cig_created_'[g]
          /\ \A d \in Known :
               (g \in aseGroups_ /\ group_devices[g] = <<d>> /\ cig_created_[g])
               => LET s1 == GroupRemoveNode(Cur, g, d)
                  IN g \in s1.aseGroups_ /\ s1.cig_created_[g]]_vars

\* the last member of a group with a CIG is about to be removed: the group
\* stays, without members, until the completion of the CIG's removal
C15_GroupOutlivesItsLastMember ==
  /\ ~aborted
  /\ \E d \in Known, g \in aseGroups_ :
       LET s1 == GroupRemoveNode(Cur, g, d)
           s2 == IsoCigEventsCb(s1, "kIsoEventCigOnRemoveCmpl", g, "HCI_SUCCESS")
       IN /\ group_devices[g] = <<d>>
          /\ cig_created_[g]
          /\ conn_id_[d]
          /\ g \in s1.aseGroups_
          /\ s1.group_devices[g] = <<>>
          /\ g \notin s2.aseGroups_

\* the OR of the locations of the members of the group
MembersSinkLocations(s, g) ==
  UNION {s.snk_audio_locations_[d] : d \in Members(s, g)}

MembersSourceLocations(s, g) ==
  UNION {s.src_audio_locations_[d] : d \in Members(s, g)}

\* C16: after every operation that changes the members of a group or the
\* audio locations of a member, the aggregated sink and source locations of
\* the group are the OR of the locations of its members, also when the
\* operation changed the active contexts of the group.
C16_GroupLocationsAreOrOfMembers ==
  ~aborted
  => \A g \in aseGroups_ :
        /\ group_snk_audio_locations_[g] = MembersSinkLocations(Cur, g)
        /\ group_src_audio_locations_[g] = MembersSourceLocations(Cur, g)

----------------------------------------------------------------------------
(* Discovery                                                               *)

\* a step in which the service is told that the device is connected
BecomesConnected(d) ==
  connection_state[d] # "CONNECTED" /\ connection_state'[d] = "CONNECTED"

\* the reads of the connection that wait for their responses
PendingReads(queue) ==
  {queue[i].hdl : i \in {j \in DOMAIN queue : queue[j].op = "ReadCharacteristic"}}

\* C17: a device under discovery is reported CONNECTED only by the step that
\* completes the read of its last ASE, and no read of the discovery is
\* waiting for its response then.
C17_ConnectedAfterLastInitialRead ==
  [][\A d \in Devices :
       (~aborted /\ notify_connected_after_read_[d] /\ BecomesConnected(d))
       => /\ gatt_queue[d] # <<>>
          /\ Head(gatt_queue[d]).op = "ReadCharacteristic"
          /\ Head(gatt_queue[d]).notify
          /\ Head(gatt_queue[d]).hdl = "SourceASE"
          /\ gatt_queue'[d] = Tail(gatt_queue[d])
          /\ PendingReads(gatt_queue'[d]) = {}]_vars

MandatoryCcc ==
  {"SinkPAC", "SourcePAC", "AvailableAudioContexts", "SinkASE", "SourceASE",
   "AseControlPoint"}

\* a mandatory CCC descriptor is absent from the database
MandatoryCccMissing(db) ==
  \/ \E i \in DOMAIN db.pacs :
        db.pacs[i].uuid \in MandatoryCcc /\ ~db.pacs[i].ccc
  \/ \E i \in DOMAIN db.ascs :
        db.ascs[i].uuid \in MandatoryCcc /\ ~db.ascs[i].ccc

\* C18: when a mandatory CCC descriptor is missing from the services found,
\* the device is disconnected, the discovery leaves no handle and no ASE on
\* the device that was not stored before it, known_service_handles_ is not
\* set and CONNECTED is not reported.
C18_MissingCccLeavesNothingStored ==
  \A d \in Devices, db \in PeerDatabases, garbage \in GarbageValues :
     (~aborted /\ service_search[d] /\ conn_id_[d] /\ MandatoryCccMissing(db))
     => LET s1 == OnServiceSearchComplete(Cur, d, "GATT_SUCCESS", db, garbage)
        IN /\ Calls(s1.out, "BTA_GATTC_Close") # {}
           /\ s1.dev_hdls[d] \subseteq dev_hdls[d]
           /\ s1.ases_[d] \in {<<>>, ases_[d]}
           /\ s1.known_service_handles_[d] = known_service_handles_[d]
           /\ Calls(s1.out, "OnConnectionState") = {}

\* C19: a successful open that reports the default MTU requests an MTU of
\* 240 octets and starts neither the encryption, nor the service search, nor
\* the connection-ready stage: these wait for the MTU to be confirmed.
C19_OpenWithDefaultMtuWaitsForMtu ==
  \A d \in in_range \cap leAudioDevices_,
     link \in {"pending", "encrypted", "bonded"},
     garbage \in GarbageValues :
     (~aborted /\ ~gatt_link[d])
     => LET s1 == OnGattConnected(LinkUp(Cur, d), d, "GATT_SUCCESS",
                                  "GATT_DEF_BLE_MTU_SIZE", link, garbage, FALSE)
        IN /\ \E i \in Calls(s1.out, "ConfigureMtu") : s1.out[i][3] = 240
           /\ Calls(s1.out, "BTM_SetEncryption") = {}
           /\ Calls(s1.out, "BTA_GATTC_ServiceSearchRequest") = {}
           /\ Calls(s1.out, "OnConnectionState") = {}
           /\ ~s1.encrypted_[d]

----------------------------------------------------------------------------
(* Reconfiguration, attach and the per-state rules of resume and suspend *)

\* new_context has, in some direction, another codec configuration than
\* the context the stream of the active group runs with
NeedsOtherConfiguration(new_context) ==
  LET cur == Cur
      g == active_group_id_
  IN \E direction \in {"Sink", "Source"} :
        GetCodecConfigurationByDirection(cur, g, new_context, direction) #
        GetCodecConfigurationByDirection(cur, g, stream_conf[g].context,
                                         direction)

\* the framework sends to a streaming active group whose stream runs with
\* the context the coordinator holds, and no member has changed what it
\* offers since the stream started
SendingToActiveGroup ==
  /\ ActiveGroupStreams
  /\ af_source_acquired
  /\ audio_sender_state_ = "STARTED"
  /\ stream_conf[active_group_id_].context = current_context_type_
  /\ pending_update_available_contexts[active_group_id_] = NoContexts

EncoderAllocations(o) ==
  {i \in Calls(o, "malloc") : o[i][2] = "lc3_encoder"}

\* the update, the peers' notifications up to the new configuration, the
\* resume the framework reissues and the peers' notifications after it
ReconfiguredBy(new_context) ==
  LET g == active_group_id_
      stopped == OnAudioMetadataUpdate(Cur, new_context)
      configured == CompleteTransition(stopped, g, Cardinality(AseStates))
      resumed == OnAudioSinkResume(configured)
      streaming == CompleteTransition(resumed, g, Cardinality(AseStates))
  IN [stopped |-> stopped, configured |-> configured, streaming |-> streaming]

ReadyAfterConnect(d, garbage, configure_ok) ==
  OnGattConnected(LinkUp(Cur, d), d, "GATT_SUCCESS", "larger", "encrypted",
                  garbage, configure_ok)

BecameReady(s, d) ==
  \E i \in Calls(s.out, "OnConnectionState") :
     s.out[i] = <<"OnConnectionState", "CONNECTED", d>>

\* C22: when a device becomes connection-ready in the active group while
\* the group is streaming, pending_configuration is set and StopStream is
\* called exactly when the stream configuration holds fewer devices than
\* the group has connected members; otherwise AttachToStream is attempted
\* (called when the device's ASEs can be configured); for a device outside
\* the active group neither is called.
C22_AttachOrReconfigureByDeviceCount ==
  \A d \in in_range, garbage \in SUBSET ContextTypes, configure_ok \in BOOLEAN :
     LET s == ReadyAfterConnect(d, garbage, configure_ok)
         g == active_group_id_
     IN (~aborted /\ ~gatt_link[d] /\ BecameReady(s, d))
        => /\ (/\ group_id_[d] = g
               /\ g \in aseGroups_
               /\ group_state[g] = "STREAMING")
              => IF stream_conf[g].num_devices < NumOfConnected(s, g)
                 THEN /\ s.pending_configuration[g]
                      /\ CalledFor(s.out, "StopStream") = {g}
                      /\ Calls(s.out, "AttachToStream") = {}
                 ELSE /\ s.pending_configuration = pending_configuration
                      /\ Calls(s.out, "StopStream") = {}
                      /\ configure_ok
                         => \E i \in Calls(s.out, "AttachToStream") :
                               s.out[i] = <<"AttachToStream", g, d>>
           /\ group_id_[d] # g
              => /\ Calls(s.out, "StopStream") = {}
                 /\ Calls(s.out, "AttachToStream") = {}
                 /\ s.pending_configuration = pending_configuration

\* C23: GroupStream on a group that is STREAMING, with the context of the
\* running stream, changes neither the current nor the target state of the
\* group nor the sender and receiver audio states, and asks the group state
\* machine for no start.
C23_GroupStreamWhileStreamingIsNoOp ==
  \A g \in aseGroups_ :
     (/\ ~aborted
      /\ group_state[g] = "STREAMING"
      /\ stream_conf[g].context \in ContextTypes)
     => LET s == GroupStream(Cur, g, stream_conf[g].context)
        IN /\ s.group_state = group_state
           /\ s.target_state = target_state
           /\ s.audio_sender_state_ = audio_sender_state_
           /\ s.audio_receiver_state_ = audio_receiver_state_
           /\ Calls(s.out, "StartStream") = {}

\* d has a record and is a member of no group
Gone(s, d) ==
  /\ ~s.aborted
  /\ d \notin s.leAudioDevices_
  /\ GroupsOf(s, d) = {}

ClosesLinkOf(s, d) ==
  \E i \in Calls(s.out, "BTA_GATTC_Close") : s.out[i] = <<"BTA_GATTC_Close", d>>

\* C24: RemoveDevice on a connected device deletes nothing at once: it asks
\* for the disconnection and marks the device as being removed, the record
\* and the membership staying as they are; the device leaves its group and
\* the registry when the disconnection event is processed. RemoveDevice on
\* a disconnected device removes the membership and the record at once.
C24_RemoveDeviceWaitsForDisconnection ==
  ~aborted
  => \A d \in leAudioDevices_ :
        LET cur == Cur
            s == RemoveDevice(cur, d)
        IN /\ conn_id_[d]
              => /\ ~s.aborted
                 /\ d \in s.leAudioDevices_
                 /\ s.removing_device_[d]
                 /\ ClosesLinkOf(s, d)
                 /\ s.group_id_ = group_id_
                 /\ s.group_devices = group_devices
                 /\ s.aseGroups_ = aseGroups_
                 /\ \A local_host \in BOOLEAN :
                       Gone(OnGattDisconnected(LinkDown(s, d), d, local_host), d)
           /\ ~conn_id_[d] => Gone(s, d)
           /\ (removing_device_[d] /\ gatt_link[d])
              => \A local_host \in BOOLEAN :
                    Gone(OnGattDisconnected(LinkDown(cur, d), d, local_host), d)

\* a connected member of a group with another member is being removed and
\* its disconnection has not been processed yet
C24_RemovalWaitsForDisconnection ==
  \E d \in leAudioDevices_ :
     /\ ~aborted
     /\ removing_device_[d]
     /\ gatt_link[d]
     /\ ~conn_id_[d]
     /\ \E g \in aseGroups_ : d \in Members(Cur, g) /\ Members(Cur, g) # {d}
     /\ Gone(OnGattDisconnected(LinkDown(Cur, d), d, TRUE), d)

\* C25: while the sender state is STARTED the active group is STREAMING and
\* the LC3 encoder memory that StartSendingAudio allocates is there; while
\* the receiver state is STARTED the active group is STREAMING and the
\* decoder memory of StartReceivingAudio is there.
C25_StartedOnlyWhileStreaming ==
  ~aborted
  => /\ audio_sender_state_ = "STARTED"
        => /\ active_group_id_ \in aseGroups_
           /\ group_state[active_group_id_] = "STREAMING"
           /\ lc3_encoder_mem
     /\ audio_receiver_state_ = "STARTED"
        => /\ active_group_id_ \in aseGroups_
           /\ group_state[active_group_id_] = "STREAMING"
           /\ lc3_decoder_mem

\* the framework can ask for the downlink and OnAudioSinkResume gets to its
\* switch: the active group is registered and has a sink configuration for
\* the current context
SinkResumeExpected ==
  /\ ~aborted
  /\ af_source_acquired
  /\ active_group_id_ \in aseGroups_
  /\ GetCodecConfigurationByDirection(Cur, active_group_id_,
                                      current_context_type_, "Sink")
       # InvalidCodecConfig

\* what the call tells the framework about its request for the downlink
SourceAnswers(s) ==
  {s.out[i][1] : i \in {j \in Calls(s.out, "ConfirmStreamingRequest") \cup
                               Calls(s.out, "CancelStreamingRequest") :
                          s.out[j][2] = "AudioSource"}}

NumOfSourceAnswers(s) ==
  Cardinality({j \in Calls(s.out, "ConfirmStreamingRequest") \cup
                     Calls(s.out, "CancelStreamingRequest") :
                 s.out[j][2] = "AudioSource"})

C30_SinkSuspendReleasesSenderAndArmsTimer ==
  (~aborted /\ af_source_acquired)
  => LET s == OnAudioSinkSuspend(Cur)
         armed == Calls(s.out, "alarm_set") # {}
     IN /\ s.audio_sender_state_ =
             IF audio_sender_state_ \in {"READY_TO_START", "STARTED"}
             THEN "READY_TO_RELEASE" ELSE audio_sender_state_
        /\ s.audio_receiver_state_ = audio_receiver_state_
        /\ active_group_id_ # kGroupUnknown
           => /\ armed =
                   (/\ audio_sender_state_ # "RELEASING"
                    /\ \/ /\ s.audio_sender_state_ = "READY_TO_RELEASE"
                          /\ s.audio_receiver_state_ \in
                               {"IDLE", "READY_TO_RELEASE"}
                       \/ /\ s.audio_sender_state_ = "IDLE"
                          /\ s.audio_receiver_state_ = "READY_TO_RELEASE")
              /\ armed => s.suspend_timeout_ = active_group_id_
              /\ ~armed => s.suspend_timeout_ = suspend_timeout_
        /\ active_group_id_ = kGroupUnknown
           => ~armed /\ s.suspend_timeout_ = suspend_timeout_
        /\ audio_sender_state_ = "RELEASING"
           => s.out = <<>> /\ StateOf(s) = StateOf(Cur)

\* the downlink runs alone and the framework suspends it
C30_SuspendOfTheLastDirection ==
  /\ ~aborted
  /\ af_source_acquired
  /\ active_group_id_ # kGroupUnknown
  /\ audio_sender_state_ = "STARTED"
  /\ audio_receiver_state_ = "IDLE"
  /\ suspend_timeout_ = kGroupUnknown
  /\ OnAudioSinkSuspend(Cur).suspend_timeout_ = active_group_id_
  /\ OnAudioSinkSuspend(Cur).audio_sender_state_ = "READY_TO_RELEASE"

----------------------------------------------------------------------------
(* The two directions of the audio session *)

MirrorWord(w) ==
  CASE w = "AudioSource" -> "AudioSink"
    [] w = "AudioSink" -> "AudioSource"
    [] w = "lc3_encoder" -> "lc3_decoder"
    [] w = "lc3_decoder" -> "lc3_encoder"
    [] OTHER -> w

\* the session with the roles of sender and receiver exchanged
Mirror(s) ==
  [s EXCEPT !.audio_sender_state_ = s.audio_receiver_state_,
            !.audio_receiver_state_ = s.audio_sender_state_,
            !.lc3_encoder_mem = s.lc3_decoder_mem,
            !.lc3_decoder_mem = s.lc3_encoder_mem,
            !.out = [i \in DOMAIN s.out |->
                       [k \in DOMAIN s.out[i] |-> MirrorWord(s.out[i][k])]]]

\* what a handler leaves behind: the session and the calls it made (the
\* handlers return nothing)
Outcome(s) ==
  [s EXCEPT !.ret = FALSE,
            !.cached_channel_data_ = <<>>,
            !.cached_channel_timestamp_ = 0,
            !.cached_channel_is_left_ = 0]

\* the group conditions are the same for both directions: the active group
\* has a configuration for the current context in both or in neither, and
\* its stream has both directions or none
SameGroupConditions ==
  LET cur == Cur
      g == active_group_id_
  IN /\ ~aborted
     /\ g \in aseGroups_
        => /\ (GetCodecConfigurationByDirection(cur, g, current_context_type_,
                                                "Sink") = InvalidCodecConfig)
              = (GetCodecConfigurationByDirection(cur, g, current_context_type_,
                                                  "Source") = InvalidCodecConfig)
           /\ HasStreamDirection(cur, g, "Sink")
              = HasStreamDirection(cur, g, "Source")

\* C31: for every pair of sender and receiver state and the same group
\* conditions, OnAudioSourceResume and OnAudioSourceSuspend give what
\* OnAudioSinkResume and OnAudioSinkSuspend give with the roles of sender
\* and receiver exchanged: the same next states, the same confirmation or
\* cancellation and the same arming or cancelling of the suspend timer.
C31_SourceHandlersMirrorSinkHandlers ==
  SameGroupConditions
  => LET cur == Cur
     IN /\ Outcome(Mirror(OnAudioSourceResume(cur)))
           = Outcome(OnAudioSinkResume(Mirror(cur)))
        /\ Outcome(Mirror(OnAudioSourceSuspend(cur)))
           = Outcome(OnAudioSinkSuspend(Mirror(cur)))

\* the uplink was suspended, the timer is armed, and the source resume
\* restores it
C31_SourceResumeRestores ==
  /\ SameGroupConditions
  /\ af_sink_acquired
  /\ audio_receiver_state_ = "READY_TO_RELEASE"
  /\ suspend_timeout_ # kGroupUnknown
  /\ OnAudioSourceResume(Cur).audio_receiver_state_ = "STARTED"
  /\ OnAudioSourceResume(Cur).suspend_timeout_ = kGroupUnknown

\* C32: while the suspend timer is armed neither audio direction is in
\* READY_TO_START or STARTED, so the timer cannot expire and stop the
\* group under a direction that has been resumed or is starting.
C32_TimerArmedOnlyWhileBothSuspended ==
  (~aborted /\ suspend_timeout_ # kGroupUnknown)
  => /\ audio_sender_state_ \notin {"READY_TO_START", "STARTED"}
     /\ audio_receiver_state_ \notin {"READY_TO_START", "STARTED"}

\* the release of group g ends with the next notification, and g was
\* stopped for re-configuration
ReleaseEndsForReconfiguration(g) ==
  /\ ~aborted
  /\ g \in aseGroups_
  /\ WatchdogRuns(g)
  /\ GetFirstActiveDevice(Cur, g) # NoDevice
  /\ NextRung(group_state[g], target_state[g]) = "IDLE"
  /\ pending_configuration[g]

\* the audio directions that are not IDLE, by the name of their session
DirectionsNotIdle(s) ==
  {"AudioSource" : x \in IF s.audio_sender_state_ # "IDLE" THEN {1} ELSE {}}
  \cup {"AudioSink" : x \in IF s.audio_receiver_state_ # "IDLE" THEN {1} ELSE {}}

\* C33: when the state machine reports IDLE or CONFIGURED_AUTONOMOUS for a
\* group with pending_configuration set, ConfigureStream is invoked for
\* that group with the current context type, after
\* SuspendedForReconfiguration was sent to each audio direction that is not
\* IDLE, and while the re-configuration is under way the sender and
\* receiver states are left as they were.
C33_EndOfReleaseReconfigures ==
  \A g \in GroupIds, autonomous \in BOOLEAN :
     ReleaseEndsForReconfiguration(g)
     => LET cur == Cur
            r == ProcessGattNotifEvent(cur, g, autonomous)
            configure == {i \in Calls(r.out, "ConfigureStream") :
                            r.out[i] = <<"ConfigureStream", g,
                                         current_context_type_>>}
        IN /\ Cardinality(configure) = 1
           /\ \A direction \in DirectionsNotIdle(cur) :
                 \E i \in Calls(r.out, "SuspendedForReconfiguration") :
                    /\ r.out[i][2] = direction
                    /\ \A c \in configure : i < c
           /\ CalledFor(r.out, "SuspendedForReconfiguration")
              = DirectionsNotIdle(cur)
           /\ IsConfiguring(r, g)
              => /\ r.audio_sender_state_ = cur.audio_sender_state_
                 /\ r.audio_receiver_state_ = cur.audio_receiver_state_

\* the release for a re-configuration ends while the sender waits, and the
\* new configuration starts
C33_ReleaseEndsWhileSenderWaits ==
  \E g \in GroupIds :
     /\ ReleaseEndsForReconfiguration(g)
     /\ audio_sender_state_ = "RELEASING"
     /\ IsConfiguring(ProcessGattNotifEvent(Cur, g, FALSE), g)
     /\ IsConfiguring(ProcessGattNotifEvent(Cur, g, TRUE), g)

\* a direction is RELEASING and the next notification of group g makes the
\* state machine report the end of the release
ReleaseEndsNext(g) ==
  /\ ~aborted
  /\ g \in aseGroups_
  /\ WatchdogRuns(g)
  /\ GetFirstActiveDevice(Cur, g) # NoDevice
  /\ "RELEASING" \in {audio_sender_state_, audio_receiver_state_}
  /\ LET rung == NextRung(group_state[g], target_state[g])
     IN \/ rung = "IDLE"
        \/ rung = "QOS_CONFIGURED" /\ target_state[g] = "QOS_CONFIGURED"
        \/ rung = "CODEC_CONFIGURED" /\ target_state[g] = "CODEC_CONFIGURED"

\* the notifications of a running transition of g, as long as one is due
RECURSIVE RunTransition(_, _, _)
RunTransition(s, g, fuel) ==
  IF \/ fuel = 0
     \/ s.aborted
     \/ ~(IsInTransition(s, g) \/ IsConfiguring(s, g))
     \/ GetFirstActiveDevice(s, g) = NoDevice
  THEN s
  ELSE RunTransition(ProcessGattNotifEvent(s, g, FALSE), g, fuel - 1)

\* the end of the release is reported and the configuration that the report
\* may have started runs to its end
AfterRelease(g, autonomous) ==
  RunTransition(ProcessGattNotifEvent(Cur, g, autonomous), g,
                Cardinality(AseStates))

\* C34: a direction that entered RELEASING does not stay there: once the
\* state machine has reported the end of the release (IDLE, SUSPENDED,
\* CONFIGURED_BY_USER or CONFIGURED_AUTONOMOUS, a failing re-entered
\* ConfigureStream included) the sender and the receiver are back in IDLE.
C34_ReleasingEndsInIdle ==
  \A g \in GroupIds, autonomous \in BOOLEAN :
     ReleaseEndsNext(g)
     => LET done == AfterRelease(g, autonomous)
        IN /\ done.audio_sender_state_ = "IDLE"
           /\ done.audio_receiver_state_ = "IDLE"

\* C35: active_group_id_ is unknown or the id of a group of the registry;
\* a group that is removed from the registry (its last member removed,
\* GroupDestroy, the completion of the CIG removal) is no longer active.
C35_ActiveGroupIsRegistered ==
  ~aborted
  => \/ active_group_id_ = kGroupUnknown
     \/ active_group_id_ \in aseGroups_

\* group g is registered, is not the active group, and has no codec
\* configuration for media in either direction
NoConfigurationToActivate(g) ==
  /\ ~aborted
  /\ g \in aseGroups_
  /\ g # active_group_id_
  /\ GetCodecConfigurationByDirection(Cur, g, "MEDIA", "Sink")
     = InvalidCodecConfig
  /\ GetCodecConfigurationByDirection(Cur, g, "MEDIA", "Source")
     = InvalidCodecConfig

\* C36: a GroupSetActive(g) that is rejected because g has no supported
\* source or sink codec configuration leaves active_group_id_,
\* current_context_type_ and the current source and sink codec
\* configurations as they were.
C36_RejectedActivationChangesNothing ==
  \A g \in GroupIds :
     NoConfigurationToActivate(g)
     => LET cur == Cur
            r == GroupSetActive(cur, g, TRUE, TRUE)
        IN /\ Calls(r.out, "OnGroupStatus") = {}
           /\ r.active_group_id_ = cur.active_group_id_
           /\ r.current_context_type_ = cur.current_context_type_
           /\ r.current_source_codec_config = cur.current_source_codec_config
           /\ r.current_sink_codec_config = cur.current_sink_codec_config

\* C37: the stored audio source and sink interface handles agree with the
\* framework: a handle is non-null exactly while its interface is acquired
\* and not released, so no interface is released twice or taken for
\* acquired after its release.
C37_HandlesAgreeWithFramework ==
  ~aborted
  => /\ audio_source_instance_ = af_source_acquired
     /\ audio_sink_instance_ = af_sink_acquired

\* the read that completes the discovery of d gets its response
LastReadCompletes(d) ==
  /\ ~aborted
  /\ gatt_queue[d] # <<>>
  /\ Head(gatt_queue[d]).op = "ReadCharacteristic"
  /\ Head(gatt_queue[d]).notify
  /\ conn_id_[d]
  /\ group_id_[d] \in aseGroups_

\* C39: UpdateContextAndLocations reads the updated contexts it passes to
\* OnAudioConf only when the optional holds a value: when the active
\* contexts of the group are unchanged and its audio locations changed,
\* nothing that the handler does depends on what the empty optional yields.
C39_EmptyOptionalIsNotRead ==
  \A d \in Devices, garbage \in GarbageValues, other \in GarbageValues :
     LastReadCompletes(d)
     => LET rsp == Head(gatt_queue[d])
            s == [Cur EXCEPT !.gatt_queue[d] = Tail(@)]
        IN \A status \in {"GATT_SUCCESS", "GATT_ERROR"},
              value \in ValuesOf(d, rsp.hdl) :
              OnGattReadRspStatic(s, d, rsp, status, value, garbage, FALSE)
              = OnGattReadRspStatic(s, d, rsp, status, value, other, FALSE)

----------------------------------------------------------------------------
(* The microphone frames and the one-slot cache *)

\* the active group has a left and a right source CIS and the receiver runs
BothChannelsReceiving(s) ==
  /\ s.active_group_id_ # kGroupUnknown
  /\ FindById(s, s.active_group_id_)
  /\ s.audio_receiver_state_ = "STARTED"
  /\ CisHandleOf(s, s.active_group_id_, "FL") # NoCis
  /\ CisHandleOf(s, s.active_group_id_, "FR") # NoCis

\* the frame interval of the session is one the decoder is run for
FramesAreDecoded(s) ==
  DataIntervalUs(s.current_sink_codec_config) \in {10000, 7500}

CacheIsEmpty(s) ==
  s.cached_channel_timestamp_ = 0 /\ s.cached_channel_data_ = <<>>

\* how often the calls of o hand frame f to the framework
Delivered(o, f) ==
  Cardinality({c \in Calls(o, "SendAudioDataToAF") \X {3, 4} :
                 o[c[1]][c[2]] = f})

\* how often the cache holds frame f
Held(s, f) == IF s.cached_channel_data_ = f THEN 1 ELSE 0

\* C38: with a left and a right source CIS and the receiver started, a
\* frame that the decoder has decoded and that finds the cache empty is cached and nothing is
\* delivered; a frame of the other channel with the cached timestamp is
\* delivered with the cached frame in one stereo call and the cache is
\* emptied; any other frame makes the cached frame be delivered alone and
\* takes its place.  So the frames held before plus the new frame are the
\* frames delivered plus the frame held after: each is delivered at most
\* once and none is lost.
C38_FramesPairedThroughCache ==
  LET cur == [Cur EXCEPT !.out = <<>>]
      g == cur.active_group_id_
  IN BothChannelsReceiving(cur) /\ FramesAreDecoded(cur) =>
       \A cis_conn_hdl \in {CisHandleOf(cur, g, "FL"), CisHandleOf(cur, g, "FR")},
          timestamp \in Timestamps, frame \in PcmFrames, garbage \in {0, 1} :
          LET is_left == IF cis_conn_hdl = CisHandleOf(cur, g, "FL")
                         THEN 1 ELSE 0
              r == IsoCisEventsCb(cur, cis_conn_hdl, timestamp, frame, 0,
                                  garbage)
              calls == r.out
          IN /\ Cardinality(Calls(calls, "SendAudioDataToAF")) = Len(calls)
             /\ StateOf(r) = StateOf([cur EXCEPT
                    !.cached_channel_data_ = r.cached_channel_data_,
                    !.cached_channel_timestamp_ = r.cached_channel_timestamp_,
                    !.cached_channel_is_left_ = r.cached_channel_is_left_])
             /\ \A f \in PcmFrames :
                   Held(cur, f) + (IF f = frame THEN 1 ELSE 0)
                     = Delivered(calls, f) + Held(r, f)
             /\ IF CacheIsEmpty(cur)
                THEN /\ calls = <<>>
                     /\ r.cached_channel_data_ = frame
                     /\ r.cached_channel_timestamp_ = timestamp
                     /\ r.cached_channel_is_left_ = is_left
                ELSE IF /\ cur.cached_channel_is_left_ # is_left
                        /\ cur.cached_channel_timestamp_ = timestamp
                THEN /\ Len(calls) = 1
                     /\ calls[1][2] = TRUE
                     /\ {calls[1][3], calls[1][4]}
                          = {cur.cached_channel_data_, frame}
                     /\ CacheIsEmpty(r)
                ELSE /\ Len(calls) = 1
                     /\ calls[1][2] = FALSE
                     /\ \/ <<calls[1][3], calls[1][4]>>
                             = <<cur.cached_channel_data_, NullPcm>>
                        \/ <<calls[1][3], calls[1][4]>>
                             = <<NullPcm, cur.cached_channel_data_>>
                     /\ r.cached_channel_data_ = frame
                     /\ r.cached_channel_timestamp_ = timestamp
                     /\ r.cached_channel_is_left_ = is_left

\* a frame is held and both channels are received: its partner can arrive
C38_FrameWaitsForItsPartner ==
  /\ BothChannelsReceiving(Cur)
  /\ FramesAreDecoded(Cur)
  /\ cached_channel_data_ # <<>>
  /\ cached_channel_timestamp_ > 0

----------------------------------------------------------------------------
(* Events that come after the client was cleaned up *)

\* the event left the client as it was and called nothing
Ignored(s, r) == StateOf(r) = StateOf(s) /\ r.out = s.out

\* the event left the client as it was and fulfilled the promise
OnlyFulfilled(s, r, promise) ==
  StateOf(r) = StateOf(s) /\ r.out = <<<<"set_value", promise>>>>

====
